---------------------------- MODULE Spec2Model ----------------------------
(***************************************************************************)
(* Display / animation engine of JellyJam: the pixel buffer and its write  *)
(* entry point (LEDMatrix.set_pixels, RGBMatrixPlugin.set_pixels), the     *)
(* animation players (LEDMatrix and BasePlugin), the volume-bar overlay    *)
(* cycle, and the DisplayManager facade a collaborator calls.              *)
(*                                                                         *)
(* Python strings are sequences of one-character strings, Python values    *)
(* are tagged records.  Threads are interleaved at the accesses to the     *)
(* attributes they share; time is abstracted: a sleep is a step, and a     *)
(* join(timeout) may return before the joined thread has ended.            *)
(***************************************************************************)
EXTENDS Integers, Sequences, FiniteSets, TLC

\* ------------------------------------------------------------- bounds
Width == 2
Height == 2
MaxAnim == 2
MaxOverlay == 2

NumPixels == Width * Height

\* ------------------------------------------------------ python values
PyNone == [t |-> "none"]
PyStr(s) == [t |-> "str", s |-> s]
PyList(xs) == [t |-> "list", xs |-> xs]

Black == <<"#", "0", "0", "0", "0", "0", "0">>

HexDigits == <<"0", "1", "2", "3", "4", "5", "6", "7",
               "8", "9", "A", "B", "C", "D", "E", "F">>

Lower == <<"a", "b", "c", "d", "e", "f", "g", "h", "i", "j", "k", "l", "m",
           "n", "o", "p", "q", "r", "s", "t", "u", "v", "w", "x", "y", "z">>

Upper == <<"A", "B", "C", "D", "E", "F", "G", "H", "I", "J", "K", "L", "M",
           "N", "O", "P", "Q", "R", "S", "T", "U", "V", "W", "X", "Y", "Z">>

\* str.upper() on one character
UpperChar(c) ==
    IF \E k \in 1..26 : Lower[k] = c
    THEN Upper[CHOOSE k \in 1..26 : Lower[k] = c]
    ELSE c

StrUpper(s) == [k \in 1..Len(s) |-> UpperChar(s[k])]

\* str.strip()
RECURSIVE LStrip(_)
LStrip(s) == IF s # <<>> /\ Head(s) = " " THEN LStrip(Tail(s)) ELSE s

RECURSIVE RStrip(_)
RStrip(s) ==
    IF s # <<>> /\ s[Len(s)] = " " THEN RStrip(SubSeq(s, 1, Len(s) - 1)) ELSE s

Strip(s) == RStrip(LStrip(s))

\* str.split(','): the parts between the commas
RECURSIVE SplitAcc(_, _, _)
SplitAcc(s, cur, acc) ==
    IF s = <<>> THEN Append(acc, cur)
    ELSE IF Head(s) = "," THEN SplitAcc(Tail(s), <<>>, Append(acc, cur))
    ELSE SplitAcc(Tail(s), Append(cur, Head(s)), acc)

SplitComma(s) == SplitAcc(s, <<>>, <<>>)

DigitVal(c) == (CHOOSE k \in 1..16 : HexDigits[k] = c) - 1

IsDecDigit(c) == \E k \in 1..10 : HexDigits[k] = c

IsHexDigit(c) == \E k \in 1..16 : HexDigits[k] = UpperChar(c)

RECURSIVE DecVal(_, _)
DecVal(s, acc) ==
    IF s = <<>> THEN acc ELSE DecVal(Tail(s), 10 * acc + DigitVal(Head(s)))

\* int(p.strip()): [ok, n]; a sign and decimal digits
ParseInt(p) ==
    LET q == Strip(p)
        neg == q # <<>> /\ Head(q) = "-"
        d == IF q # <<>> /\ Head(q) \in {"-", "+"} THEN Tail(q) ELSE q
    IN  IF d # <<>> /\ \A k \in 1..Len(d) : IsDecDigit(d[k])
        THEN [ok |-> TRUE, n |-> IF neg THEN 0 - DecVal(d, 0) ELSE DecVal(d, 0)]
        ELSE [ok |-> FALSE, n |-> 0]

RECURSIVE HexOf(_)
HexOf(n) ==
    IF n < 16 THEN <<HexDigits[n + 1]>>
    ELSE Append(HexOf(n \div 16), HexDigits[(n % 16) + 1])

\* '%02X' % n
Fmt02X(n) ==
    LET body == IF n < 0 THEN <<"-">> \o HexOf(0 - n) ELSE HexOf(n)
    IN  IF Len(body) < 2 THEN <<"0">> \o body ELSE body

\* '#%02X%02X%02X' % (r, g, b)
FmtColor(r, g, b) == <<"#">> \o Fmt02X(r) \o Fmt02X(g) \o Fmt02X(b)

\* _coerce_color (LEDMatrix and BasePlugin carry the same body)
CoerceColor(v) ==
    IF v.t # "str" THEN Black
    ELSE
      LET s == Strip(v.s) IN
      IF s # <<>> /\ Head(s) = "#" /\ Len(s) \in {4, 7}
      THEN IF Len(s) = 4
           THEN StrUpper(<<"#", s[2], s[2], s[3], s[3], s[4], s[4]>>)
           ELSE StrUpper(s)
      ELSE IF \E k \in 1..Len(s) : s[k] = ","
      THEN LET parts == SplitComma(s)
               ints == [k \in 1..Len(parts) |-> ParseInt(parts[k])]
           IN  IF Len(parts) >= 3 /\ \A k \in 1..Len(parts) : ints[k].ok
               THEN FmtColor(ints[1].n, ints[2].n, ints[3].n)
               ELSE Black
      ELSE Black


\* --------------------------------------------------- set_pixels: normalise
\* "for v in row": a list row yields its elements, a str row its characters;
\* any other row raises TypeError
RowItems(row) ==
    IF row.t = "list" THEN [ok |-> TRUE, xs |-> row.xs]
    ELSE IF row.t = "str"
    THEN [ok |-> TRUE, xs |-> [k \in 1..Len(row.s) |-> PyStr(<<row.s[k]>>)]]
    ELSE [ok |-> FALSE, xs |-> <<>>]

RECURSIVE FlattenRows(_, _)
FlattenRows(rows, acc) ==
    IF rows = <<>> THEN [ok |-> TRUE, xs |-> acc]
    ELSE LET r == RowItems(Head(rows)) IN
         IF r.ok THEN FlattenRows(Tail(rows), acc \o r.xs)
         ELSE [ok |-> FALSE, xs |-> <<>>]

FlatValues_NoFlatten(pixels) == RowItems(pixels)

\* the values set_pixels coerces, in order: a nested list of rows is flattened
\* row-major, a flat list is taken as it is
FlatValues(pixels) ==
    IF pixels.t = "list" /\ pixels.xs # <<>> /\ pixels.xs[1].t = "list"
    THEN FlattenRows(pixels.xs, <<>>)
    ELSE RowItems(pixels)

PadTruncate_PadOnly(flat, expected) ==
    [k \in 1..(IF Len(flat) > expected THEN Len(flat) ELSE expected) |->
        IF k <= Len(flat) THEN flat[k] ELSE Black]

PadTruncate(flat, expected) ==
    [k \in 1..expected |-> IF k <= Len(flat) THEN flat[k] ELSE Black]

\* flat = [_coerce_color(v) ...]; pad with '#000000'; truncate to width*height
NormalizePixels(pixels) ==
    LET vals == FlatValues(pixels).xs
    IN  PadTruncate([k \in 1..Len(vals) |-> CoerceColor(vals[k])], NumPixels)

MergeOverlay_OverlayOnly(flat, overpix) ==
    IF Len(overpix) = NumPixels THEN overpix ELSE flat

\* the overlay merge of set_pixels: any overlay pixel that is not '#000000' wins
MergeOverlay(flat, overpix) ==
    IF Len(overpix) = NumPixels
    THEN [k \in 1..NumPixels |-> IF overpix[k] # Black THEN overpix[k] ELSE flat[k]]
    ELSE flat

\* hexc = col.lstrip('#')
RECURSIVE LStripHash(_)
LStripHash(s) == IF s # <<>> /\ Head(s) = "#" THEN LStripHash(Tail(s)) ELSE s

HexVal(s) == IF Len(s) = 1 THEN DigitVal(UpperChar(s[1]))
             ELSE 16 * DigitVal(UpperChar(s[1])) + DigitVal(UpperChar(s[2]))

HexSlice(hexc, k) ==
    SubSeq(hexc, 2 * k - 1, IF 2 * k <= Len(hexc) THEN 2 * k ELSE Len(hexc))

\* r = int(hexc[0:2], 16); g = int(hexc[2:4], 16); b = int(hexc[4:6], 16),
\* and `fallback` when one of them raises
ParseRGB(col, fallback) ==
    LET hexc == LStripHash(col)
        okk(k) == HexSlice(hexc, k) # <<>>
                  /\ \A j \in 1..Len(HexSlice(hexc, k)) : IsHexDigit(HexSlice(hexc, k)[j])
    IN  IF okk(1) /\ okk(2) /\ okk(3)
        THEN <<HexVal(HexSlice(hexc, 1)), HexVal(HexSlice(hexc, 2)), HexVal(HexSlice(hexc, 3))>>
        ELSE fallback

\* a pixel put into the PIL image and read back by get_pixels
ImagePixel(col) ==
    LET rgb == ParseRGB(col, <<0, 0, 0>>) IN FmtColor(rgb[1], rgb[2], rgb[3])

ImageOf(flat) == [k \in 1..Len(flat) |-> ImagePixel(flat[k])]

\* ------------------------------------------------- show_volume_bar: overlay
\* v = max(0, min(100, int(volume)))
ClampPercent(v) == IF v < 0 THEN 0 ELSE IF v > 100 THEN 100 ELSE v

\* c = str(color or '#00FF00').strip(); '#' prefixed; '#RGB' expanded; upper()
NormalizeBarColor(color) ==
    LET c0 == IF color.t = "str" /\ color.s # <<>> THEN Strip(color.s)
              ELSE <<"#", "0", "0", "F", "F", "0", "0">>
        c1 == IF c0 # <<>> /\ Head(c0) = "#" THEN c0 ELSE <<"#">> \o c0
        c2 == IF Len(c1) = 4
              THEN <<"#", c1[2], c1[2], c1[3], c1[3], c1[4], c1[4]>>
              ELSE c1
    IN  StrUpper(c2)

\* m = str(mode or 'overlay').lower(); anything but 'pause' is 'overlay'
NormalizeMode(mode) == IF mode = "pause" THEN "pause" ELSE "overlay"

Filled_Truncated(v, w) == (v * w) \div 100

\* filled = int(round((v / 100.0) * w)): round half to even
Filled(v, w) ==
    LET twice == 2 * v * w
        q == twice \div 200
        r == twice % 200
    IN  IF r > 100 THEN q + 1
        ELSE IF r < 100 THEN q
        ELSE IF q % 2 = 0 THEN q ELSE q + 1

\* int(fr * 0.12), the same number as fr * 12 \div 100 for fr in 0..255
Dim(n) == (n * 12) \div 100

BarRGB(c) == ParseRGB(c, <<0, 255, 0>>)

FilledColor(c) == FmtColor(BarRGB(c)[1], BarRGB(c)[2], BarRGB(c)[3])

EmptyColor(c) == FmtColor(Dim(BarRGB(c)[1]), Dim(BarRGB(c)[2]), Dim(BarRGB(c)[3]))

RowStart == (Height - 1) * Width

\* over = list(snap) with the bottom row replaced by the bar
OverlayPixels(snap, v, c) ==
    [k \in 1..NumPixels |->
        IF k <= RowStart THEN snap[k]
        ELSE IF (k - RowStart - 1) < Filled(v, Width) THEN FilledColor(c)
        ELSE EmptyColor(c)]


\* -------------------------------------------------- preset (WLED) decoding
PyInt(n) == [t |-> "int", n |-> n]
PyDict(d) == [t |-> "dict", d |-> d]
HasKey(obj, k) == obj.t = "dict" /\ k \in DOMAIN obj.d

WledColor_AsGiven(c) == c

\* cols: '#' prefixed when missing, upper-cased
WledColor(c) ==
    LET s == Strip(c) IN
    IF s # <<>> /\ Head(s) = "#" THEN StrUpper(s) ELSE StrUpper(<<"#">> \o s)

\* the colour strings that follow position i
RECURSIVE ColorsFrom(_, _)
ColorsFrom(arr, i) ==
    IF i <= Len(arr) /\ arr[i].t = "str"
    THEN <<WledColor(arr[i].s)>> \o ColorsFrom(arr, i + 1)
    ELSE <<>>

FirstBlack(out) ==
    IF \E k \in 1..Len(out) : out[k] = Black
    THEN CHOOSE k \in 1..Len(out) : out[k] = Black /\ \A j \in 1..(k - 1) : out[j] # Black
    ELSE 0

\* parse_wled_i_array: i is the 1-based position in i_array, out the pixels so far
RECURSIVE ParseWledFrom(_, _, _, _)
ParseWledFrom(arr, i, out, num) ==
    IF i > Len(arr) THEN out
    ELSE IF arr[i].t = "int"
    THEN LET start == arr[i].n
             hasEnd == i + 1 <= Len(arr) /\ arr[i + 1].t = "int"
             end == IF hasEnd THEN arr[i + 1].n ELSE start + 1
             j == IF hasEnd THEN i + 2 ELSE i + 1
             cols == ColorsFrom(arr, j)
             a == IF start < 0 THEN 0 ELSE start
             b == IF end > num THEN num ELSE end
             length == IF b - a < 0 THEN 0 ELSE b - a
             filled ==
                 IF length <= 0 \/ cols = <<>> THEN out
                 ELSE IF Len(cols) = 1
                 THEN [p \in 1..num |-> IF p - 1 >= a /\ p - 1 < b THEN cols[1] ELSE out[p]]
                 ELSE IF Len(cols) >= length
                 THEN [p \in 1..num |-> IF p - 1 >= a /\ p - 1 < b THEN cols[p - a] ELSE out[p]]
                 ELSE [p \in 1..num |->
                          IF p - 1 >= a /\ p - 1 < b
                          THEN cols[((p - 1 - a) % Len(cols)) + 1] ELSE out[p]]
         IN  ParseWledFrom(arr, j + Len(cols), filled, num)
    ELSE IF arr[i].t = "str"
    THEN LET idx == FirstBlack(out)
             val == Strip(arr[i].s)
             col == IF val # <<>> /\ Head(val) = "#" THEN val ELSE StrUpper(<<"#">> \o val)
         IN  ParseWledFrom(arr, i + 1,
                 IF idx = 0 THEN out ELSE [out EXCEPT ![idx] = col], num)
    ELSE ParseWledFrom(arr, i + 1, out, num)

parse_wled_i_array_Grown(i_array, num_pixels) ==
    ParseWledFrom(i_array, 1, [p \in 1..(num_pixels + 1) |-> Black], num_pixels + 1)

parse_wled_i_array(i_array, num_pixels) ==
    ParseWledFrom(i_array, 1, [p \in 1..num_pixels |-> Black], num_pixels)

\* LEDMatrix.play_wled_json: the i array of one decoded object, <<>> when the
\* object carries no segment data
RECURSIVE SegListItems(_)
SegListItems(segs) ==
    IF segs = <<>> THEN <<>>
    ELSE (IF HasKey(Head(segs), "i") /\ Head(segs).d.i.t = "list"
          THEN Head(segs).d.i.xs ELSE <<>>) \o SegListItems(Tail(segs))

SegOf(obj) ==
    IF HasKey(obj, "seg") THEN obj.d.seg
    ELSE IF HasKey(obj, "presets") /\ obj.d.presets.t = "list" /\ obj.d.presets.xs # <<>>
            /\ HasKey(obj.d.presets.xs[1], "seg")
    THEN obj.d.presets.xs[1].d.seg
    ELSE PyNone

IArrayOf(obj) ==
    LET seg == SegOf(obj) IN
    IF HasKey(seg, "i") /\ seg.d.i.t = "list" THEN seg.d.i.xs
    ELSE IF seg.t = "list" THEN SegListItems(seg.xs)
    ELSE <<>>

\* frames of LEDMatrix.play_wled_json: one per object that carries segment data
RECURSIVE LegacyWledFrames(_)
LegacyWledFrames(objs) ==
    IF objs = <<>> THEN <<>>
    ELSE (IF IArrayOf(Head(objs)) # <<>>
          THEN <<parse_wled_i_array(IArrayOf(Head(objs)), NumPixels)>>
          ELSE <<>>) \o LegacyWledFrames(Tail(objs))

\* objs of LEDMatrix.play_wled_json after json.loads
LegacyObjs(data) ==
    IF data.t = "list" THEN data.xs ELSE IF data.t = "dict" THEN <<data>> ELSE <<>>

\* frames of BasePlugin.play_wled_json after json.loads
BaseWledFrames(objs) ==
    IF objs.t = "dict"
    THEN IF HasKey(objs, "frames") /\ objs.d.frames.t = "list" THEN objs.d.frames.xs
         ELSE <<objs>>
    ELSE IF objs.t = "list" THEN objs.xs
    ELSE <<objs>>

\* payload = fr.get('pixels', fr.get('frame', fr))
BasePayload(fr) ==
    IF fr.t = "dict"
    THEN IF HasKey(fr, "pixels") THEN fr.d.pixels
         ELSE IF HasKey(fr, "frame") THEN fr.d.frame
         ELSE fr
    ELSE fr


\* ------------------------------------------------------- sources on disk
Ch(s) == PyStr(s)
Red == <<"#", "F", "F", "0", "0", "0", "0">>
Blue == <<"#", "0", "0", "0", "0", "F", "F">>

\* anim.gif: two frames already resized to width x height
GifFrame1 == [p \in 1..NumPixels |-> IF p % 2 = 1 THEN Red ELSE Black]
GifFrame2 == [p \in 1..NumPixels |-> Blue]

\* preset.json: [{"seg": {"i": [0, N, "FF0000"]}, "bri": 128},
\*               {"seg": {"i": [0, 2, "00ff00", "0000ff"]}}]
PresetJson ==
    PyList(<<
        PyDict([seg |-> PyDict([i |-> PyList(<<PyInt(0), PyInt(NumPixels),
                                   Ch(<<"F", "F", "0", "0", "0", "0">>)>>)]),
                bri |-> PyInt(128)]),
        PyDict([seg |-> PyDict([i |-> PyList(<<PyInt(0), PyInt(2),
                                   Ch(<<"0", "0", "f", "f", "0", "0">>),
                                   Ch(<<"0", "0", "0", "0", "f", "f">>)>>)])])
    >>)

\* bare.json: {"bri": 10}, an object without segment data
BareJson == PyDict([bri |-> PyInt(10)])

\* frames.json: [{"pixels": ["#00f"], "bri": 128}, ["#FF0000", "#FF0000"]], frames
\* given as pixel lists, the first inside an object that also carries a brightness
FramesJson ==
    PyList(<<PyDict([pixels |-> PyList(<<Ch(<<"#", "0", "0", "f">>)>>), bri |-> PyInt(128)]),
             PyList(<<Ch(Red), Ch(Red)>>)>>)

Files == {"missing", "anim.gif", "preset.json", "bare.json", "frames.json"}

\* Path(path).exists()
FileExists(file) == file # "missing"

IsGif(file) == file = "anim.gif"

\* json.loads(raw)
FileJson(file) ==
    IF file = "preset.json" THEN PresetJson
    ELSE IF file = "bare.json" THEN BareJson
    ELSE IF file = "frames.json" THEN FramesJson
    ELSE PyNone

\* bri = int(max(0, min(100, b * 100 // 255))), -1 for None
BriOf(obj) ==
    IF HasKey(obj, "bri") /\ obj.d.bri.t = "int"
    THEN ClampPercent((obj.d.bri.n * 100) \div 255)
    ELSE -1

RECURSIVE LegacyWledBris(_)
LegacyWledBris(objs) ==
    IF objs = <<>> THEN <<>>
    ELSE (IF IArrayOf(Head(objs)) # <<>> THEN <<BriOf(Head(objs))>> ELSE <<>>)
         \o LegacyWledBris(Tail(objs))

\* what LEDMatrix.play_* holds when it reaches "start thread": ok is FALSE when
\* the call raised instead
LegacyDecodeOf(kind, file) ==
    IF kind = "gif"
    THEN IF IsGif(file)
         THEN [ok |-> TRUE, frames |-> <<GifFrame1, GifFrame2>>, bris |-> <<-1, -1>>]
         ELSE [ok |-> FALSE, frames |-> <<>>, bris |-> <<>>]
    ELSE LET objs == LegacyObjs(FileJson(file))
             frames == LegacyWledFrames(objs)
         IN  [ok |-> ~IsGif(file) /\ objs # <<>> /\ frames # <<>>,
              frames |-> frames, bris |-> LegacyWledBris(objs)]

\* the sources a play call can name, each decoded once
PlayKinds == {"gif", "wled"}

LegacyDecoded == [kf \in PlayKinds \X Files |-> LegacyDecodeOf(kf[1], kf[2])]

LegacyDecode(kind, file) == LegacyDecoded[<<kind, file>>]

\* what the BasePlugin runner holds after decoding: ok is FALSE when decoding
\* raised (logged by the runner)
BaseDecodeOf(kind, file) ==
    IF kind = "gif"
    THEN IF IsGif(file)
         THEN [ok |-> TRUE, frames |-> <<PyList([k \in 1..NumPixels |-> Ch(GifFrame1[k])]),
                                         PyList([k \in 1..NumPixels |-> Ch(GifFrame2[k])])>>]
         ELSE [ok |-> FALSE, frames |-> <<>>]
    ELSE IF FileExists(file) /\ ~IsGif(file)
         THEN [ok |-> TRUE, frames |-> BaseWledFrames(FileJson(file))]
         ELSE [ok |-> FALSE, frames |-> <<>>]

BaseDecoded == [kf \in PlayKinds \X Files |-> BaseDecodeOf(kf[1], kf[2])]

BaseDecode(kind, file) == BaseDecoded[<<kind, file>>]

\* number of frames the source holds for the player that plays it
NumFrames(cls, kind, file) ==
    IF cls = "legacy" THEN Len(LegacyDecode(kind, file).frames)
    ELSE Len(BaseDecode(kind, file).frames)

\* fp of RGBMatrixPlugin.fast_write_flat: length-normalised, not coerced
FastFlat(payload) ==
    [k \in 1..NumPixels |-> IF k <= Len(payload.xs) THEN payload.xs[k].s ELSE Black]

AllStr(payload) == \A k \in 1..Len(payload.xs) : payload.xs[k].t = "str"


\* ------------------------------------------------------------------ state
MaxCalls == 3

AnimIds == 1..MaxAnim
OvIds == 1..MaxOverlay

\* a reference to a thread object that has finished
DeadRef == -1

VARIABLES
    plugin,              \* "ws2812" (WS2812Plugin over LEDMatrix) or "rgbmatrix"
    hardware,            \* RGBMatrixPlugin._hardware is not None
    buf,                 \* LEDMatrix._buf / RGBMatrixPlugin._buffer_img, as get_pixels() reads it
    notified,            \* the list last passed to the _on_update callback, <<>> before the first
    shown,               \* the image last handed to the panel driver's SetImage, <<>> before the first
    brightness,          \* LEDMatrix._brightness_percent
    anim_thread,         \* LEDMatrix._anim_thread: 0 (None), a task, DeadRef
    anim_stop_event,     \* LEDMatrix._anim_stop_event: 0 (None) or the task owning the event
    evset,               \* the LEDMatrix stop events that are set, by owning task
    base_thread,         \* BasePlugin._anim_thread: 0 (None) or a task
    anim_stop,           \* BasePlugin._anim_stop.is_set()
    anim_paused,         \* BasePlugin._anim_paused.is_set()
    anim_lock,           \* BasePlugin._anim_lock is held (by the caller, in stop_animation)
    vol_overlay_stop,    \* _vol_overlay_stop: 0 (None) or the overlay task owning the event
    vol_overlay_thread,  \* _vol_overlay_thread: 0 (None) or an overlay task
    vol_overlay_active,  \* _vol_overlay_active
    vol_overlay_mode,    \* _vol_overlay_mode
    vol_overlay_pixels,  \* _vol_overlay_pixels, <<>> for None
    ovset,               \* the overlay stop events that are set, by owning task
    task,                \* the animation threads
    ovl,                 \* the overlay threads
    caller,              \* the thread calling the DisplayManager API
    calls,               \* number of API calls issued so far
    pure,                \* a call of a function without display state: name, argument, result
    app                  \* app.py around the manager: _animation_lock, _last_animation, the clock

vars == <<plugin, hardware, buf, notified, shown, brightness, anim_thread, anim_stop_event, evset,
          base_thread, anim_stop, anim_paused, anim_lock, vol_overlay_stop,
          vol_overlay_thread, vol_overlay_active, vol_overlay_mode,
          vol_overlay_pixels, ovset, task, ovl, caller, calls, pure, app>>

legacyVars == <<anim_thread, anim_stop_event, evset>>
baseVars == <<base_thread, anim_stop, anim_paused, anim_lock>>
overlayVars == <<vol_overlay_stop, vol_overlay_thread, vol_overlay_active,
                 vol_overlay_mode, vol_overlay_pixels, ovset>>
\* what no display operation assigns
configVars == <<plugin, hardware, pure, app>>

DeadTask == [pc |-> "dead", cls |-> "none", kind |-> "none", file |-> "none",
             loop |-> FALSE, idx |-> 0, flat |-> <<>>, log |-> <<>>, why |-> "none",
             seen |-> "none"]

DeadOverlay == [pc |-> "dead", v |-> 0, c |-> <<>>, snap |-> <<>>, over |-> <<>>]

IdleCaller == [pc |-> "idle", op |-> "none", kind |-> "none", file |-> "none",
               loop |-> FALSE, th |-> 0, next |-> "none", flat |-> <<>>,
               v |-> 0, c |-> <<>>, mode |-> "none", pre |-> FALSE,
               bypass |-> FALSE]

Alive(i) == task[i].pc # "dead"
OvAlive(k) == ovl[k].pc # "dead"

\* lowest free slot for a new thread object
FreeAnim == CHOOSE i \in AnimIds : ~Alive(i) /\ \A j \in AnimIds : j < i => Alive(j)
FreeOv == CHOOSE k \in OvIds : ~OvAlive(k) /\ \A j \in OvIds : j < k => OvAlive(j)

\* LEDMatrix.get_pixels / RGBMatrixPlugin.get_pixels
get_pixels == buf

\* what a write leaves in the buffer: the strip keeps the strings, the panel
\* keeps the RGB image they parse to
Stored(flat) == IF plugin = "rgbmatrix" THEN ImageOf(flat) ELSE flat

\* RGBMatrixPlugin.set_pixels puts its pixels one by one into the image that
\* get_pixels reads; LEDMatrix.set_pixels replaces the list in one assignment
InPlace == plugin = "rgbmatrix"

\* set_pixels hands the image buffer to the driver when there is one
Pushed(img) == IF hardware THEN img ELSE shown

\* the buffer once the putpixel loop has gone over the pixels lo..hi of flat
PutPixels(flat, lo, hi) ==
    LET img == Stored(flat) IN
    [p \in 1..NumPixels |-> IF lo <= p /\ p <= hi THEN img[p] ELSE buf[p]]

\* a list of colour strings as a Python list
AsPyList(flat) == PyList([p \in 1..Len(flat) |-> Ch(flat[p])])

\* DisplayManager.is_animating -> plugin.is_animating
is_animating ==
    IF plugin = "ws2812" THEN anim_stop_event # 0
    ELSE base_thread \in AnimIds

\* the overlay a write finds on display when it is issued: the mode of the
\* active overlay once its bar has been written, "none" otherwise
OverlaySeen ==
    IF vol_overlay_active /\ vol_overlay_stop \in OvIds
          /\ ovl[IF vol_overlay_stop \in OvIds THEN vol_overlay_stop ELSE 1].pc = "wait"
    THEN vol_overlay_mode ELSE "none"

Blocked_IgnoreBypass(bypass) ==
    vol_overlay_active /\ vol_overlay_mode = "pause"

\* set_pixels: the write is dropped while a 'pause' overlay is active
Blocked(bypass) ==
    vol_overlay_active /\ ~bypass /\ vol_overlay_mode = "pause"

Prepared_IgnoreBypass(pixels, bypass) ==
    LET flat == NormalizePixels(pixels) IN
    IF vol_overlay_active /\ vol_overlay_mode = "overlay"
    THEN MergeOverlay(flat, vol_overlay_pixels)
    ELSE flat

\* set_pixels: the list that is about to be stored
Prepared(pixels, bypass) ==
    LET flat == NormalizePixels(pixels) IN
    IF vol_overlay_active /\ ~bypass /\ vol_overlay_mode = "overlay"
    THEN MergeOverlay(flat, vol_overlay_pixels)
    ELSE flat

NoCall == [fn |-> "none", arg |-> <<>>, res |-> <<>>]

\* no record: _last_animation = {'name': None, 'started_at': 0.0}
NoRecord == [name |-> "None", at |-> 0]

\* app.py after import, around a manager of Width x Height:
\*   last     _last_animation
\*   now      time.time(), in ticks
\*   lock     _animation_lock is held
\*   pending  the record the holder of the lock writes before it releases it
\*   n        requests handled so far
\*   stop_at  the value of calls at the last STOP_ANIMATION_MARKER request that ran
\*   since    the last request that touched the record: "play", "stop", "pause"
\*   pw, ph   width and height of the active plugin instance
\*   cb       an update callback is registered on the active plugin instance
\*   orphans  what still runs on replaced plugin instances: "anim", "overlay"
StartApp == [last |-> NoRecord, now |-> 0, lock |-> FALSE, pending |-> NoRecord,
             n |-> 0, stop_at |-> 0, since |-> "none",
             pw |-> Width, ph |-> Height, cb |-> TRUE, orphans |-> {}]

Init ==
    /\ plugin \in {"ws2812", "rgbmatrix"}
    /\ hardware \in BOOLEAN
    /\ (plugin = "ws2812" => ~hardware)
    /\ pure = NoCall
    /\ buf = [p \in 1..NumPixels |-> Black]
    /\ notified = <<>>
    /\ shown = <<>>
    /\ brightness = 25
    /\ anim_thread = 0
    /\ anim_stop_event = 0
    /\ evset = {}
    /\ base_thread = 0
    /\ anim_stop = FALSE
    /\ anim_paused = FALSE
    /\ anim_lock = FALSE
    /\ vol_overlay_stop = 0
    /\ vol_overlay_thread = 0
    /\ vol_overlay_active = FALSE
    /\ vol_overlay_mode = "overlay"
    /\ vol_overlay_pixels = <<>>
    /\ ovset = {}
    /\ task = [i \in AnimIds |-> DeadTask]
    /\ ovl = [k \in OvIds |-> DeadOverlay]
    /\ caller = IdleCaller
    /\ calls = 0
    /\ app = StartApp

\* ------------------------------------------------- set_pixels by the caller
SetPixelsInputs ==
    { <<PyList(<<Ch(<<"#", "f", "0", "0">>)>>), FALSE>>,
      <<PyList([k \in 1..(NumPixels + 1) |-> Ch(<<"0", ",", "0", ",", "2", "5", "5">>)]), TRUE>>,
      <<PyList(<<PyList(<<PyNone, Ch(<<"3", "0", "0", ",", "0", ",", "0">>)>>),
                 PyList(<<Ch(<<"#", "0", "0", "f", "f", "0", "0">>)>>)>>), FALSE>> }

\* DisplayManager.set_pixels -> plugin.set_pixels, up to the list to store
CallSetPixels(pixels, bypass) ==
    /\ caller.pc = "idle"
    /\ calls < MaxCalls
    /\ calls' = calls + 1
    /\ IF Blocked(bypass) \/ pixels = PyNone
       THEN caller' = caller
       ELSE caller' = [IdleCaller EXCEPT !.pc = "sp_store", !.op = "set_pixels",
                                         !.bypass = bypass,
                                         !.flat = Prepared(pixels, bypass)]
    /\ UNCHANGED <<configVars, buf, notified, shown, brightness, legacyVars, baseVars, overlayVars, task, ovl>>

\* RGBMatrixPlugin.set_pixels: the putpixel loop over the rows above the last
CallerPutTop ==
    /\ caller.pc = "sp_store" /\ InPlace
    /\ buf' = PutPixels(caller.flat, 1, RowStart)
    /\ caller' = [caller EXCEPT !.pc = "sp_rest"]
    /\ UNCHANGED <<configVars, notified, shown, brightness, legacyVars, baseVars,
                   overlayVars, task, ovl, calls>>

\* set_pixels: self._buf = flat / the putpixel loop over the last row; then
\* the update callback
CallerStore ==
    /\ caller.pc = (IF InPlace THEN "sp_rest" ELSE "sp_store")
    /\ buf' = IF InPlace THEN PutPixels(caller.flat, RowStart + 1, NumPixels)
              ELSE caller.flat
    /\ notified' = caller.flat
    /\ shown' = Pushed(buf')
    /\ caller' = IdleCaller
    /\ UNCHANGED <<configVars, brightness, legacyVars, baseVars, overlayVars, task, ovl, calls>>


\* ------------------------------------------------------ animation threads
NewLegacyTask(kind, file, loop) ==
    [DeadTask EXCEPT !.pc = "frame", !.cls = "legacy", !.kind = kind, !.file = file,
                     !.loop = loop, !.idx = 1]

NewBaseTask(kind, file, loop) ==
    [DeadTask EXCEPT !.pc = "start", !.cls = "base", !.kind = kind, !.file = file,
                     !.loop = loop, !.idx = 1]

\* the stop signal the runner of task i polls
StopSeen(i) == IF task[i].cls = "legacy" THEN i \in evset ELSE anim_stop

\* position of the frame after frame idx: a looping runner starts over
NextIdx(t) ==
    IF t.idx >= NumFrames(t.cls, t.kind, t.file) /\ t.loop THEN 1 ELSE t.idx + 1

Logged(t) == IF t.loop THEN t.log ELSE Append(t.log, t.idx)

\* BasePlugin runner: decode the source, then clear the stop (and pause) flag
TaskStart(i) ==
    /\ task[i].pc = "start"
    /\ LET dec == BaseDecode(task[i].kind, task[i].file) IN
       IF ~dec.ok
       THEN /\ task' = [task EXCEPT ![i].pc = "fin", ![i].why = "failed"]
            /\ UNCHANGED <<anim_stop, anim_paused>>
       ELSE IF dec.frames = <<>>
       THEN /\ task' = [task EXCEPT ![i].pc = "fin", ![i].why = "empty"]
            /\ UNCHANGED <<anim_stop, anim_paused>>
       ELSE /\ task' = [task EXCEPT ![i].pc = "frame"]
            /\ anim_stop' = FALSE
            /\ anim_paused' = IF task[i].kind = "gif" THEN FALSE ELSE anim_paused
    /\ UNCHANGED <<configVars, buf, notified, shown, brightness, legacyVars, base_thread, anim_lock,
                   overlayVars, ovl, caller, calls>>

\* LEDMatrix runner at the top of a frame: leave on stop or after the last
\* frame of a single pass, else set_pixels(pix) up to the list to store
LegacyFrame(i) ==
    LET t == task[i]
        dec == LegacyDecode(t.kind, t.file)
    IN
    /\ t.pc = "frame" /\ t.cls = "legacy"
    /\ IF t.idx > Len(dec.frames)
       THEN /\ task' = [task EXCEPT ![i].pc = "fin", ![i].why = "natural"]
            /\ UNCHANGED brightness
       ELSE IF StopSeen(i)
       THEN /\ task' = [task EXCEPT ![i].pc = "fin", ![i].why = "stopped"]
            /\ UNCHANGED brightness
       ELSE /\ brightness' = IF dec.bris[t.idx] >= 0 THEN dec.bris[t.idx] ELSE brightness
            /\ IF Blocked(FALSE)
               THEN task' = [task EXCEPT ![i].idx = NextIdx(t), ![i].log = Logged(t)]
               ELSE task' = [task EXCEPT ![i].pc = "store", ![i].log = Logged(t),
                                 ![i].seen = OverlaySeen,
                                 ![i].flat = Prepared(PyList([k \in 1..NumPixels |->
                                                 Ch(dec.frames[t.idx][k])]), FALSE)]
    /\ UNCHANGED <<configVars, buf, notified, shown, legacyVars, baseVars, overlayVars, ovl, caller, calls>>

\* BasePlugin runner at the top of a frame: wait while paused, leave on stop
\* or after the last frame of a single pass, else hand the frame to the plugin
BaseFrame(i) ==
    LET t == task[i]
        dec == BaseDecode(t.kind, t.file)
        fr == dec.frames[t.idx]
        payload == IF t.kind = "gif" THEN fr ELSE BasePayload(fr)
        direct == plugin = "rgbmatrix" /\ (t.kind = "gif" \/ AllStr(payload))
    IN
    /\ t.pc = "frame" /\ t.cls = "base"
    /\ IF t.idx > Len(dec.frames)
       THEN task' = [task EXCEPT ![i].pc = "fin", ![i].why = "natural"]
       ELSE /\ ~(anim_paused /\ ~anim_stop)
            /\ IF anim_stop
               THEN task' = [task EXCEPT ![i].pc = "fin", ![i].why = "stopped"]
               ELSE IF payload.t # "list"
               THEN \* 'Unsupported frame payload type': nothing is written
                    task' = [task EXCEPT ![i].idx = NextIdx(t)]
               ELSE IF direct
               THEN \* show_image / fast_write_flat of the panel
                    IF hardware
                    THEN task' = [task EXCEPT ![i].idx = NextIdx(t), ![i].log = Logged(t)]
                    ELSE task' = [task EXCEPT ![i].pc = "store", ![i].log = Logged(t),
                                      ![i].seen = OverlaySeen,
                                      ![i].flat = IF t.kind = "gif"
                                                  THEN ImageOf(FastFlat(payload))
                                                  ELSE FastFlat(payload)]
               ELSE \* through set_pixels of the backend
                    IF Blocked(FALSE)
                    THEN task' = [task EXCEPT ![i].idx = NextIdx(t), ![i].log = Logged(t)]
                    ELSE task' = [task EXCEPT ![i].pc = "store", ![i].log = Logged(t),
                                      ![i].seen = OverlaySeen,
                                      ![i].flat = Prepared(payload, FALSE)]
    /\ shown' = IF /\ t.idx <= Len(dec.frames) /\ ~anim_stop
                    /\ payload.t = "list" /\ direct /\ hardware
                 THEN \* self._hardware.SetImage(img); return
                      ImageOf(FastFlat(payload))
                 ELSE shown
    /\ UNCHANGED <<configVars, buf, notified, brightness, legacyVars, baseVars, overlayVars,
                   ovl, caller, calls>>

\* the frame reaches the buffer and the update callback; the runner then
\* sleeps the frame's delay
TaskStore(i) ==
    /\ task[i].pc = "store"
    /\ buf' = Stored(task[i].flat)
    /\ notified' = task[i].flat
    /\ shown' = Pushed(buf')
    /\ task' = [task EXCEPT ![i].pc = "frame", ![i].idx = NextIdx(task[i]),
                             ![i].flat = <<>>, ![i].seen = "none"]
    /\ UNCHANGED <<configVars, brightness, legacyVars, baseVars, overlayVars, ovl, caller, calls>>

\* LEDMatrix runner: finally: self._anim_stop_event = None
LegacyFin(i) ==
    /\ task[i].pc = "fin" /\ task[i].cls = "legacy"
    /\ anim_stop_event' = 0
    /\ anim_thread' = IF anim_thread = i THEN DeadRef ELSE anim_thread
    /\ evset' = evset \ {i}
    /\ task' = [task EXCEPT ![i] = DeadTask]
    /\ UNCHANGED <<configVars, buf, notified, shown, brightness, baseVars, overlayVars, ovl, caller, calls>>

\* BasePlugin runner: finally: with self._anim_lock: thread = None; stop.clear()
BaseFin(i) ==
    /\ task[i].pc = "fin" /\ task[i].cls = "base"
    /\ ~anim_lock
    /\ base_thread' = 0
    /\ anim_stop' = FALSE
    /\ task' = [task EXCEPT ![i] = DeadTask]
    /\ UNCHANGED <<configVars, buf, notified, shown, brightness, legacyVars, anim_paused, anim_lock,
                   overlayVars, ovl, caller, calls>>


\* ------------------------------------------- play / stop / pause / resume
PlayInputs ==
    { <<"gif", "anim.gif", TRUE>>, <<"gif", "anim.gif", FALSE>>,
      <<"gif", "missing", TRUE>>,
      <<"wled", "preset.json", FALSE>>,
      <<"wled", "frames.json", FALSE>>,
      <<"wled", "bare.json", TRUE>> }

\* the source cannot be played: the file is missing or holds no frame
\* (spec: SourceNotFound, NoFramesFound)
Fails(kind, file) == ~LegacyDecode(kind, file).ok

\* LEDMatrix.stop_animation up to the join: set the event, look at the thread.
\* Without a live thread the finally clause runs at once.
LegacySignal(c) ==
    /\ evset' = IF anim_stop_event # 0 THEN evset \cup {anim_stop_event} ELSE evset
    /\ IF anim_thread \in AnimIds
       THEN /\ caller' = [c EXCEPT !.pc = "l_join", !.th = anim_thread]
            /\ UNCHANGED <<anim_thread, anim_stop_event>>
       ELSE /\ anim_thread' = 0
            /\ anim_stop_event' = 0
            /\ caller' = IF c.next = "done" THEN IdleCaller ELSE [c EXCEPT !.pc = c.next]

\* BasePlugin.stop_animation up to the join, which keeps _anim_lock
BaseSignal(c) ==
    IF base_thread \in AnimIds
    THEN /\ anim_stop' = TRUE
         /\ anim_lock' = TRUE
         /\ caller' = [c EXCEPT !.pc = "b_join", !.th = base_thread]
         /\ UNCHANGED <<base_thread, anim_paused>>
    ELSE /\ caller' = IF c.next = "done" THEN IdleCaller ELSE [c EXCEPT !.pc = c.next]
         /\ UNCHANGED baseVars

\* DisplayManager.play_animation_from_gif / play_wled_json, first step.
\* ws2812: LEDMatrix raises on a missing file before it stops anything, and
\* WS2812Plugin then falls back to BasePlugin.play_*, whose self.stop_animation()
\* is LEDMatrix.stop_animation again. rgbmatrix: BasePlugin.play_* directly.
CallPlay(kind, file, loop) ==
    /\ caller.pc = "idle"
    /\ calls < MaxCalls
    /\ \E i \in AnimIds : ~Alive(i)
    /\ calls' = calls + 1
    /\ LET c == [IdleCaller EXCEPT !.op = "play", !.kind = kind, !.file = file,
                                   !.loop = loop, !.pre = is_animating]
       IN  IF plugin = "ws2812"
           THEN /\ LegacySignal([c EXCEPT !.next =
                        IF FileExists(file) THEN "l_spawn" ELSE "fb_spawn"])
                /\ UNCHANGED baseVars
           ELSE /\ BaseSignal([c EXCEPT !.next = "fb_spawn"])
                /\ UNCHANGED legacyVars
    /\ UNCHANGED <<configVars, buf, notified, shown, brightness, overlayVars, task, ovl>>

\* DisplayManager.stop_animation, first step
CallStop ==
    /\ caller.pc = "idle"
    /\ calls < MaxCalls
    /\ calls' = calls + 1
    /\ LET c == [IdleCaller EXCEPT !.op = "stop", !.next = "done", !.pre = is_animating]
       IN  IF plugin = "ws2812"
           THEN LegacySignal(c) /\ UNCHANGED baseVars
           ELSE BaseSignal(c) /\ UNCHANGED legacyVars
    /\ UNCHANGED <<configVars, buf, notified, shown, brightness, overlayVars, task, ovl>>

\* LEDMatrix.stop_animation: th.join(timeout=5.0) returns, on the thread's end
\* or on the timeout; finally: _anim_thread = None; _anim_stop_event = None
LegacyJoinReturn ==
    /\ caller.pc = "l_join"
    /\ anim_thread' = 0
    /\ anim_stop_event' = 0
    /\ caller' = IF caller.next = "done" THEN IdleCaller
                 ELSE [caller EXCEPT !.pc = caller.next, !.th = 0]
    /\ UNCHANGED <<configVars, buf, notified, shown, brightness, evset, baseVars, overlayVars, task, ovl, calls>>

\* BasePlugin.stop_animation: join(timeout=2.0) returns; thread = None;
\* stop.clear(); paused.clear(); the lock is released
BaseJoinReturn ==
    /\ caller.pc = "b_join"
    /\ base_thread' = 0
    /\ anim_stop' = FALSE
    /\ anim_paused' = FALSE
    /\ anim_lock' = FALSE
    /\ caller' = IF caller.next = "done" THEN IdleCaller
                 ELSE [caller EXCEPT !.pc = caller.next, !.th = 0]
    /\ UNCHANGED <<configVars, buf, notified, shown, brightness, legacyVars, overlayVars, task, ovl, calls>>

\* BasePlugin.play_*: with _anim_lock: _anim_thread = t; stop.clear();
\* paused.clear(); t.start()
BaseSpawnEffect(i) ==
    /\ base_thread' = i
    /\ anim_stop' = FALSE
    /\ anim_paused' = FALSE
    /\ UNCHANGED anim_lock
    /\ task' = [task EXCEPT ![i] = NewBaseTask(caller.kind, caller.file, caller.loop)]

\* LEDMatrix.play_*: decode in the caller; start the thread, or raise and let
\* WS2812Plugin fall back to BasePlugin.play_*
LegacySpawn ==
    /\ caller.pc = "l_spawn"
    /\ IF LegacyDecode(caller.kind, caller.file).ok
       THEN /\ anim_stop_event' = FreeAnim
            /\ anim_thread' = FreeAnim
            /\ evset' = evset \ {FreeAnim}
            /\ task' = [task EXCEPT ![FreeAnim] =
                            NewLegacyTask(caller.kind, caller.file, caller.loop)]
            /\ UNCHANGED baseVars
       ELSE /\ BaseSpawnEffect(FreeAnim)
            /\ UNCHANGED legacyVars
    /\ caller' = IdleCaller
    /\ UNCHANGED <<configVars, buf, notified, shown, brightness, overlayVars, ovl, calls>>

\* BasePlugin.play_* after its stop_animation(): start the runner thread
BaseSpawn ==
    /\ caller.pc = "fb_spawn"
    /\ BaseSpawnEffect(FreeAnim)
    /\ caller' = IdleCaller
    /\ UNCHANGED <<configVars, buf, notified, shown, brightness, legacyVars, overlayVars, ovl, calls>>

\* BasePlugin.pause_animation (both plugins inherit it)
CallPause ==
    /\ caller.pc = "idle"
    /\ calls < MaxCalls
    /\ calls' = calls + 1
    /\ anim_paused' = IF base_thread \in AnimIds THEN TRUE ELSE anim_paused
    /\ UNCHANGED <<configVars, buf, notified, shown, brightness, legacyVars, base_thread, anim_stop,
                   anim_lock, overlayVars, task, ovl, caller>>

\* BasePlugin.resume_animation
CallResume ==
    /\ caller.pc = "idle"
    /\ calls < MaxCalls
    /\ calls' = calls + 1
    /\ anim_paused' = IF base_thread \in AnimIds THEN FALSE ELSE anim_paused
    /\ UNCHANGED <<configVars, buf, notified, shown, brightness, legacyVars, base_thread, anim_stop,
                   anim_lock, overlayVars, task, ovl, caller>>


\* ------------------------------------------------------- show_volume_bar
VolumeInputs ==
    { <<50, Ch(<<"0", "f", "0">>), "overlay">>,
      <<130, PyNone, "pause">> }

\* show_volume_bar, first step: cancel the previous overlay (set its event,
\* join(timeout=0.2) when its thread is alive)
CallShowVolumeBar(volume, color, mode) ==
    /\ caller.pc = "idle"
    /\ calls < MaxCalls
    /\ \E k \in OvIds : ~OvAlive(k)
    /\ calls' = calls + 1
    /\ ovset' = IF vol_overlay_stop # 0 THEN ovset \cup {vol_overlay_stop} ELSE ovset
    /\ caller' = [IdleCaller EXCEPT
                     !.pc = IF vol_overlay_thread \in OvIds THEN "sv_join" ELSE "sv_start",
                     !.op = "show_volume_bar", !.th = vol_overlay_thread,
                     !.v = ClampPercent(volume), !.c = NormalizeBarColor(color),
                     !.mode = NormalizeMode(mode)]
    /\ UNCHANGED <<configVars, buf, notified, shown, brightness, legacyVars, baseVars, vol_overlay_stop,
                   vol_overlay_thread, vol_overlay_active, vol_overlay_mode,
                   vol_overlay_pixels, task, ovl>>

\* prev_th.join(timeout=0.2) returns, on the thread's end or on the timeout
OverlayJoinReturn ==
    /\ caller.pc = "sv_join"
    /\ caller' = [caller EXCEPT !.pc = "sv_start", !.th = 0]
    /\ UNCHANGED <<configVars, buf, notified, shown, brightness, legacyVars, baseVars, overlayVars,
                   task, ovl, calls>>

\* show_volume_bar: publish the new stop event, the active flag and the mode,
\* then start the overlay thread
OverlayStart ==
    /\ caller.pc = "sv_start"
    /\ vol_overlay_stop' = FreeOv
    /\ ovset' = ovset \ {FreeOv}
    /\ vol_overlay_active' = TRUE
    /\ vol_overlay_mode' = caller.mode
    /\ vol_overlay_thread' = FreeOv
    /\ ovl' = [ovl EXCEPT ![FreeOv] =
                   [DeadOverlay EXCEPT !.pc = "snap", !.v = caller.v, !.c = caller.c]]
    /\ caller' = IdleCaller
    /\ UNCHANGED <<configVars, buf, notified, shown, brightness, legacyVars, baseVars, vol_overlay_pixels,
                   task, calls>>

\* overlay runner: snapshot the buffer, build the bar, publish _vol_overlay_pixels
OverlaySnap(k) ==
    /\ ovl[k].pc = "snap"
    /\ LET over == OverlayPixels(get_pixels, ovl[k].v, ovl[k].c) IN
       /\ ovl' = [ovl EXCEPT ![k].pc = "write", ![k].snap = get_pixels, ![k].over = over]
       /\ vol_overlay_pixels' = over
    /\ UNCHANGED <<configVars, buf, notified, shown, brightness, legacyVars, baseVars, vol_overlay_stop,
                   vol_overlay_thread, vol_overlay_active, vol_overlay_mode, ovset,
                   task, caller, calls>>

\* overlay runner: set_pixels(over, bypass_overlay=True), the whole write
\* taken as one step
OverlayWrite(k) ==
    /\ ovl[k].pc = "write"
    /\ LET flat == Prepared(AsPyList(ovl[k].over), TRUE) IN
       /\ buf' = Stored(flat)
       /\ notified' = flat
       /\ shown' = Pushed(buf')
    /\ ovl' = [ovl EXCEPT ![k].pc = "wait"]
    /\ UNCHANGED <<configVars, brightness, legacyVars, baseVars, overlayVars, task,
                   caller, calls>>

\* overlay runner: the wait loop sees its stop event
OverlayCancelled(k) ==
    /\ ovl[k].pc = "wait"
    /\ k \in ovset
    /\ ovl' = [ovl EXCEPT ![k].pc = "fin"]
    /\ UNCHANGED <<configVars, buf, notified, shown, brightness, legacyVars, baseVars, overlayVars, task,
                   caller, calls>>

\* overlay runner: the deadline passes without a stop; the strip restores
\* only when no animation is running, the panel always
OverlayExpire(k) ==
    /\ ovl[k].pc = "wait"
    /\ k \notin ovset
    /\ ovl' = [ovl EXCEPT ![k].pc =
                   IF plugin = "ws2812" /\ anim_stop_event # 0 THEN "fin" ELSE "restore"]
    /\ UNCHANGED <<configVars, buf, notified, shown, brightness, legacyVars, baseVars, overlayVars, task,
                   caller, calls>>

\* overlay runner: set_pixels(snap, bypass_overlay=True)
OverlayRestore(k) ==
    /\ ovl[k].pc = "restore"
    /\ LET flat == Prepared(AsPyList(ovl[k].snap), TRUE) IN
       /\ buf' = Stored(flat)
       /\ notified' = flat
       /\ shown' = Pushed(buf')
    /\ ovl' = [ovl EXCEPT ![k].pc = "fin"]
    /\ UNCHANGED <<configVars, brightness, legacyVars, baseVars, overlayVars, task,
                   caller, calls>>

OverlayFin_KeepsFlag(k) ==
    /\ ovl[k].pc = "fin"
    /\ vol_overlay_thread' = 0
    /\ vol_overlay_stop' = 0
    /\ vol_overlay_mode' = "overlay"
    /\ vol_overlay_pixels' = <<>>
    /\ ovset' = ovset \ {k}
    /\ ovl' = [ovl EXCEPT ![k] = DeadOverlay]
    /\ UNCHANGED <<configVars, buf, notified, shown, brightness, legacyVars, baseVars, task, caller, calls,
                   vol_overlay_active>>

\* overlay runner: finally: thread, stop event, active flag, mode, pixels reset
OverlayFin(k) ==
    /\ ovl[k].pc = "fin"
    /\ vol_overlay_thread' = 0
    /\ vol_overlay_stop' = 0
    /\ vol_overlay_active' = FALSE
    /\ vol_overlay_mode' = "overlay"
    /\ vol_overlay_pixels' = <<>>
    /\ ovset' = ovset \ {k}
    /\ ovl' = [ovl EXCEPT ![k] = DeadOverlay]
    /\ UNCHANGED <<configVars, buf, notified, shown, brightness, legacyVars, baseVars, task, caller, calls>>

\* ------------------------------------------------------------ specification
Next ==
    \/ \E in \in SetPixelsInputs : CallSetPixels(in[1], in[2])
    \/ CallerPutTop
    \/ CallerStore
    \/ \E in \in PlayInputs : CallPlay(in[1], in[2], in[3])
    \/ CallStop
    \/ LegacyJoinReturn
    \/ BaseJoinReturn
    \/ LegacySpawn
    \/ BaseSpawn
    \/ CallPause
    \/ CallResume
    \/ \E in \in VolumeInputs : CallShowVolumeBar(in[1], in[2], in[3])
    \/ OverlayJoinReturn
    \/ OverlayStart
    \/ \E i \in AnimIds : TaskStart(i)
    \/ \E i \in AnimIds : LegacyFrame(i)
    \/ \E i \in AnimIds : BaseFrame(i)
    \/ \E i \in AnimIds : TaskStore(i)
    \/ \E i \in AnimIds : LegacyFin(i)
    \/ \E i \in AnimIds : BaseFin(i)
    \/ \E k \in OvIds : OverlaySnap(k)
    \/ \E k \in OvIds : OverlayWrite(k)
    \/ \E k \in OvIds : OverlayCancelled(k)
    \/ \E k \in OvIds : OverlayExpire(k)
    \/ \E k \in OvIds : OverlayRestore(k)
    \/ \E k \in OvIds : OverlayFin(k)

Spec == Init /\ [][Next]_vars

\* ------------------------------------------- overlay cycles under fairness
\* the writes and overlay requests of a caller, and the overlay runner threads
OverlayNext ==
    \/ \E in \in SetPixelsInputs : CallSetPixels(in[1], in[2])
    \/ CallerPutTop
    \/ CallerStore
    \/ \E in \in VolumeInputs : CallShowVolumeBar(in[1], in[2], in[3])
    \/ OverlayJoinReturn
    \/ OverlayStart
    \/ \E k \in OvIds : OverlaySnap(k)
    \/ \E k \in OvIds : OverlayWrite(k)
    \/ \E k \in OvIds : OverlayCancelled(k)
    \/ \E k \in OvIds : OverlayExpire(k)
    \/ \E k \in OvIds : OverlayRestore(k)
    \/ \E k \in OvIds : OverlayFin(k)

\* Every started overlay runner thread keeps being scheduled until it ends: weak
\* fairness of each of its steps.  The steps that snapshot and write the buffer are
\* enabled exactly when pc is "snap", "write" or "restore" and each of them changes
\* pc, so their weak fairness is the statement that pc leaves these values.
OverlayFairness ==
    \A k \in OvIds :
        /\ WF_vars(OverlayCancelled(k) \/ OverlayExpire(k) \/ OverlayFin(k))
        /\ []<>(ovl[k].pc \notin {"snap", "write", "restore"})

OverlaySpec == Init /\ [][OverlayNext]_vars /\ OverlayFairness

\* ------------------------------------------- volume bars with no other writer
\* a caller that only asks for volume bars, and the overlay runner threads
VolumeNext ==
    \/ \E in \in VolumeInputs : CallShowVolumeBar(in[1], in[2], in[3])
    \/ OverlayJoinReturn
    \/ OverlayStart
    \/ \E k \in OvIds : OverlaySnap(k)
    \/ \E k \in OvIds : OverlayWrite(k)
    \/ \E k \in OvIds : OverlayCancelled(k)
    \/ \E k \in OvIds : OverlayExpire(k)
    \/ \E k \in OvIds : OverlayRestore(k)
    \/ \E k \in OvIds : OverlayFin(k)

VolumeSpec == Init /\ [][VolumeNext]_vars


\* ------------------------------------------- app.py around the manager
\* STOP_ANIMATION_MARKER
StopMarker == "__STOP__"

\* _DUPLICATE_SUPPRESSION_SEC (0.5 s by default), in clock ticks
SuppressTicks == 2

\* the clock is followed up to this tick
MaxClock == 2

\* requests handled by app.py
MaxRequests == 3

\* play and volume calls of the display API made through app.py; a stop
\* request may follow them, up to MaxCalls calls
MaxAppCalls == 2

\* _play_animation_safe: the test that makes it return at once
Suppressed(fname) ==
    app.last.name = fname /\ app.now - app.last.at < SuppressTicks

\* the display operations below are those of an instance of the manager's size
Sized == app.pw = Width /\ app.ph = Height

\* DisplayManager.get_pixels -> plugin.get_pixels
ManagerGetPixels == get_pixels

\* plugin.stop_animation() called by app.py; the caller goes on at pc next
AppSignal(c) ==
    IF plugin = "ws2812"
    THEN LegacySignal(c) /\ UNCHANGED baseVars
    ELSE BaseSignal(c) /\ UNCHANGED legacyVars

\* time passes; the clock is read where a request starts and where it ends
Tick ==
    /\ app.now < MaxClock
    /\ caller.pc = "idle"
    /\ app' = [app EXCEPT !.now = app.now + 1]
    /\ UNCHANGED <<plugin, hardware, pure, buf, notified, shown, brightness, legacyVars,
                   baseVars, overlayVars, task, ovl, caller, calls>>

\* what _play_animation_safe plays: play_wled_json(path) is called without
\* loop and speed, so a preset always loops
SafeInputs ==
    { <<"gif", "anim.gif", TRUE>>, <<"gif", "missing", TRUE>> }

\* _play_animation_safe(fname, loop): now, the lock, the duplicate test, the
\* path test, then matrix.stop_animation() up to its join
SafePlay(kind, file, loop) ==
    /\ caller.pc = "idle" /\ ~app.lock /\ Sized
    /\ app.n < MaxRequests /\ calls < MaxAppCalls
    /\ \E i \in AnimIds : ~Alive(i)
    /\ calls' = calls + 1
    /\ IF Suppressed(file) \/ ~FileExists(file)
       THEN /\ app' = [app EXCEPT !.n = app.n + 1, !.since = "play"]
            /\ UNCHANGED <<legacyVars, baseVars, caller>>
       ELSE /\ app' = [app EXCEPT !.n = app.n + 1, !.since = "play", !.lock = TRUE,
                                  !.pending = [name |-> file, at |-> app.now]]
            /\ AppSignal([IdleCaller EXCEPT !.op = "play", !.kind = kind, !.file = file,
                                            !.loop = loop, !.next = "safe_play"])
    /\ UNCHANGED <<plugin, hardware, pure, buf, notified, shown, brightness, overlayVars,
                   task, ovl>>

\* _play_animation_safe: matrix.play_animation_from_gif / play_wled_json, whose
\* first step is the plugin's own stop_animation()
SafePlayInner ==
    /\ caller.pc = "safe_play"
    /\ LET c == [caller EXCEPT !.pre = is_animating]
       IN  IF plugin = "ws2812"
           THEN /\ LegacySignal([c EXCEPT !.next =
                        IF FileExists(c.file) THEN "l_spawn" ELSE "fb_spawn"])
                /\ UNCHANGED baseVars
           ELSE /\ BaseSignal([c EXCEPT !.next = "fb_spawn"])
                /\ UNCHANGED legacyVars
    /\ UNCHANGED <<configVars, buf, notified, shown, brightness, overlayVars, task, ovl, calls>>

\* _play_animation_safe(STOP_ANIMATION_MARKER): the duplicate test, then
\* matrix.stop_animation() up to its join
SafeStop ==
    /\ caller.pc = "idle" /\ ~app.lock /\ Sized
    /\ app.n < MaxRequests /\ calls < MaxCalls
    /\ calls' = calls + 1
    /\ IF Suppressed(StopMarker)
       THEN /\ app' = [app EXCEPT !.n = app.n + 1]
            /\ UNCHANGED <<legacyVars, baseVars, caller>>
       ELSE /\ app' = [app EXCEPT !.n = app.n + 1, !.lock = TRUE, !.stop_at = calls + 1,
                                  !.pending = [name |-> StopMarker, at |-> app.now]]
            /\ AppSignal([IdleCaller EXCEPT !.op = "stop", !.next = "safe_clear"])
    /\ UNCHANGED <<plugin, hardware, pure, buf, notified, shown, brightness, overlayVars,
                   task, ovl>>

\* matrix.set_pixels(['#000000'] * (matrix.width * matrix.height),
\* bypass_overlay=True), up to the list to store
SafeClear ==
    /\ caller.pc = "safe_clear"
    /\ caller' = [IdleCaller EXCEPT
                     !.pc = "sp_store", !.op = "set_pixels", !.bypass = TRUE,
                     !.flat = Prepared(PyList([k \in 1..(Width * Height) |-> Ch(Black)]), TRUE)]
    /\ UNCHANGED <<configVars, buf, notified, shown, brightness, legacyVars, baseVars,
                   overlayVars, task, ovl, calls>>

\* /api/animations/stop without 'clear': under the lock, matrix.stop_animation(),
\* then the record is reset with the time of the reset
ApiStop ==
    /\ caller.pc = "idle" /\ ~app.lock /\ Sized
    /\ app.n < MaxRequests
    /\ app' = [app EXCEPT !.n = app.n + 1, !.since = "stop", !.lock = TRUE,
                          !.pending = [name |-> "None", at |-> 0 - 1]]
    /\ AppSignal([IdleCaller EXCEPT !.op = "stop", !.next = "done"])
    /\ UNCHANGED <<plugin, hardware, pure, buf, notified, shown, brightness, overlayVars,
                   task, ovl, calls>>

\* the end of a section under _animation_lock: _last_animation is written and
\* the lock is released
SafeRecord ==
    /\ app.lock /\ caller.pc = "idle"
    /\ app' = [app EXCEPT !.lock = FALSE, !.pending = NoRecord,
                          !.last = IF app.pending.at < 0
                                   THEN [app.pending EXCEPT !.at = app.now]
                                   ELSE app.pending]
    /\ UNCHANGED <<plugin, hardware, pure, buf, notified, shown, brightness, legacyVars,
                   baseVars, overlayVars, task, ovl, caller, calls>>

\* /api/control 'pause': matrix.pause_animation(), then the record is reset,
\* on the request's own thread and without _animation_lock
ApiPause ==
    /\ ~anim_lock /\ Sized
    /\ app.n < MaxRequests
    /\ anim_paused' = IF base_thread \in AnimIds THEN TRUE ELSE anim_paused
    /\ app' = [app EXCEPT !.n = app.n + 1, !.since = "pause", !.last = NoRecord]
    /\ UNCHANGED <<plugin, hardware, pure, buf, notified, shown, brightness, legacyVars,
                   base_thread, anim_stop, anim_lock, overlayVars, task, ovl, caller, calls>>

\* backend_config of the settings form: the sizes it may carry
CfgInputs ==
    { [name |-> "ws2812", w |-> 0, h |-> 0],
      [name |-> "rgbmatrix", w |-> Width, h |-> Height],
      [name |-> "ws2812", w |-> Width + 1, h |-> Height] }

\* settings handler: matrix.set_active_plugin(active, cfg) builds a plugin of
\* the size in cfg (the manager's where cfg has none) and assigns it to
\* _plugin; then matrix.set_on_update(_broadcast_pixels) when socketio is there.
\* Nothing is stopped: what ran on the replaced instance keeps running on it.
SetActivePlugin(cfg) ==
    /\ caller.pc = "idle" /\ ~app.lock
    /\ app.n < MaxRequests
    /\ plugin' = cfg.name
    /\ \E hw \in BOOLEAN : hardware' = (cfg.name = "rgbmatrix" /\ hw)
    /\ LET pw == IF cfg.w = 0 THEN Width ELSE cfg.w
           ph == IF cfg.h = 0 THEN Height ELSE cfg.h
       IN  /\ buf' = [p \in 1..(pw * ph) |->
                        IF cfg.name = "rgbmatrix" THEN ImagePixel(Black) ELSE Black]
           /\ app' = [app EXCEPT
                         !.n = app.n + 1, !.pw = pw, !.ph = ph,
                         !.orphans = app.orphans
                             \cup (IF \E i \in AnimIds : Alive(i) THEN {"anim"} ELSE {})
                             \cup (IF \E k \in OvIds : OvAlive(k) THEN {"overlay"} ELSE {})]
    /\ brightness' = 25
    /\ anim_thread' = 0 /\ anim_stop_event' = 0 /\ evset' = {}
    /\ base_thread' = 0 /\ anim_stop' = FALSE /\ anim_paused' = FALSE /\ anim_lock' = FALSE
    /\ vol_overlay_stop' = 0 /\ vol_overlay_thread' = 0 /\ vol_overlay_active' = FALSE
    /\ vol_overlay_mode' = "overlay" /\ vol_overlay_pixels' = <<>> /\ ovset' = {}
    /\ task' = [i \in AnimIds |-> DeadTask]
    /\ ovl' = [k \in OvIds |-> DeadOverlay]
    /\ UNCHANGED <<pure, notified, shown, caller, calls>>

\* a thread of a replaced instance writes a frame there: the driver and the
\* callback registered on that instance get it
OrphanFrame(o) ==
    /\ o \in app.orphans
    /\ notified' = [p \in 1..NumPixels |-> IF o = "anim" THEN Blue ELSE Black]
    /\ shown' = Pushed(ImageOf(notified'))
    /\ UNCHANGED <<configVars, buf, brightness, legacyVars, baseVars, overlayVars, task, ovl,
                   caller, calls>>

\* a thread of a replaced instance ends
OrphanEnd(o) ==
    /\ o \in app.orphans
    /\ app' = [app EXCEPT !.orphans = app.orphans \ {o}]
    /\ UNCHANGED <<plugin, hardware, pure, buf, notified, shown, brightness, legacyVars,
                   baseVars, overlayVars, task, ovl, caller, calls>>

\* the requests app.py handles, and the steps of the display on an instance of
\* the manager's size
AppNext ==
    \/ Tick
    \/ \E in \in SafeInputs : SafePlay(in[1], in[2], in[3])
    \/ SafePlayInner
    \/ SafeStop
    \/ SafeClear
    \/ ApiStop
    \/ SafeRecord
    \/ ApiPause
    \/ \E cfg \in CfgInputs : SetActivePlugin(cfg)
    \/ \E o \in {"anim", "overlay"} : OrphanFrame(o)
    \/ \E o \in {"anim", "overlay"} : OrphanEnd(o)
    \/ Sized /\ CallerPutTop
    \/ Sized /\ CallerStore
    \/ Sized /\ LegacyJoinReturn
    \/ Sized /\ BaseJoinReturn
    \/ Sized /\ LegacySpawn
    \/ Sized /\ BaseSpawn
    \/ Sized /\ calls < MaxAppCalls /\ CallShowVolumeBar(50, Ch(<<"0", "f", "0">>), "overlay")
    \/ Sized /\ OverlayJoinReturn
    \/ Sized /\ OverlayStart
    \/ \E i \in AnimIds : Sized /\ TaskStart(i)
    \/ \E i \in AnimIds : Sized /\ LegacyFrame(i)
    \/ \E i \in AnimIds : Sized /\ BaseFrame(i)
    \/ \E i \in AnimIds : Sized /\ TaskStore(i)
    \/ \E i \in AnimIds : Sized /\ LegacyFin(i)
    \/ \E i \in AnimIds : Sized /\ BaseFin(i)
    \/ \E k \in OvIds : Sized /\ OverlaySnap(k)
    \/ \E k \in OvIds : Sized /\ OverlayWrite(k)
    \/ \E k \in OvIds : Sized /\ OverlayCancelled(k)
    \/ \E k \in OvIds : Sized /\ OverlayExpire(k)
    \/ \E k \in OvIds : Sized /\ OverlayRestore(k)
    \/ \E k \in OvIds : Sized /\ OverlayFin(k)

\* app.py starts on the strip backend, the default of DisplayManager.__init__
AppInit == Init /\ plugin = "ws2812"

AppSpec == AppInit /\ [][AppNext]_vars


\* ------------------------------------------------- the functions, on their own
\* the display variables, at rest
AtRest ==
    /\ plugin = "ws2812" /\ hardware = FALSE
    /\ buf = [p \in 1..NumPixels |-> Black]
    /\ notified = <<>> /\ shown = <<>>
    /\ brightness = 25
    /\ anim_thread = 0 /\ anim_stop_event = 0 /\ evset = {}
    /\ base_thread = 0 /\ anim_stop = FALSE /\ anim_paused = FALSE /\ anim_lock = FALSE
    /\ vol_overlay_stop = 0 /\ vol_overlay_thread = 0 /\ vol_overlay_active = FALSE
    /\ vol_overlay_mode = "overlay" /\ vol_overlay_pixels = <<>> /\ ovset = {}
    /\ task = [i \in AnimIds |-> DeadTask]
    /\ ovl = [k \in OvIds |-> DeadOverlay]
    /\ caller = IdleCaller
    /\ calls = 0
    /\ app = StartApp

displayVars == <<plugin, hardware, buf, notified, shown, brightness, legacyVars, baseVars,
                 overlayVars, task, ovl, caller, calls, app>>

\* a call that has not run yet
Pending == [t |-> "pending"]

Call(fn, arg) == [fn |-> fn, arg |-> arg, res |-> Pending]

\* the longest run of characters after '#' in a colour argument
MaxHex == 6

\* arguments of _coerce_color: '#' strings, "r,g,b" strings, others
ColorInputs ==
    LET ColorChars == {"0", "f", "g"}
        HashStrings == UNION {{<<"#">> \o t : t \in [1..n -> ColorChars]} : n \in 0..MaxHex}
        TripleParts == {<<"0">>, <<"2", "5", "5">>, <<"3", "0", "0">>, <<"-", "1">>,
                        <<" ", "7">>, <<"x">>}
        Triples == {a \o <<",">> \o b \o <<",">> \o c : a, b, c \in TripleParts}
        OtherStrings ==
            { <<>>, <<"r", "e", "d">>, <<"f", "f", "0", "0", "0", "0">>,
              <<" ", "#", "0", "f", "0", " ">>, <<"1", ",", "2">>,
              <<"1", ",", "2", ",", "3", ",", "4">> }
    IN  {PyNone, PyInt(5), PyList(<<>>)}
            \cup {PyStr(c) : c \in HashStrings \cup Triples \cup OtherStrings}

\* _coerce_color(v)
CoerceStep ==
    /\ pure.fn = "_coerce_color" /\ pure.res = Pending
    /\ pure' = [pure EXCEPT !.res = CoerceColor(pure.arg)]
    /\ UNCHANGED displayVars

\* how far a flat argument of set_pixels may exceed width*height
MaxExtra == 1
\* the most values in a row of a nested argument of set_pixels
MaxRowLen == 3

\* arguments of set_pixels: flat lists, and nested lists of one row or two
PixelInputs ==
    LET PixelValues == {Ch(<<"0", ",", "0", ",", "2", "5", "5">>), PyNone}
        RowValues == {Ch(<<"#", "0", "f", "0">>), PyNone}
        FlatInputs == UNION {{PyList(xs) : xs \in [1..n -> PixelValues]} :
                                 n \in 0..(NumPixels + MaxExtra)}
        PixelRows == UNION {{PyList(xs) : xs \in [1..n -> RowValues]} : n \in 0..MaxRowLen}
    IN  FlatInputs \cup {PyList(<<r>>) : r \in PixelRows}
                   \cup {PyList(<<r, q>>) : r, q \in PixelRows}

\* set_pixels(pixels), up to the padded and truncated list
NormalizeStep ==
    /\ pure.fn = "set_pixels" /\ pure.res = Pending
    /\ pure' = [pure EXCEPT !.res = NormalizePixels(pure.arg)]
    /\ UNCHANGED displayVars

\* the most colours in a run of a seg.i array
MaxCols == 3

\* the runs (start, end, colours) of a seg.i array: one run that lies in a
\* buffer of width*height pixels or reaches past its end, alone or followed
\* by a one-colour run of two pixels
RunInputs ==
    LET RunColors == {<<"#", "f", "f", "0", "0", "0", "0">>, <<"0", "0", "F", "F", "0", "0">>}
        Runs == {[start |-> a, end |-> b, cols |-> cs] :
                    a \in (0 - 1)..NumPixels, b \in 0..(NumPixels + 2),
                    cs \in UNION {[1..n -> RunColors] : n \in 1..MaxCols}}
        SecondRuns ==
            {[start |-> a, end |-> a + 2, cols |-> <<<<"#", "0", "0", "0", "0", "F", "F">>>>] :
                a \in 0..(NumPixels - 1)}
    IN  {<<r>> : r \in Runs} \cup {<<r, q>> : r \in Runs, q \in SecondRuns}

RunItems(r) ==
    <<PyInt(r.start), PyInt(r.end)>> \o [k \in 1..Len(r.cols) |-> PyStr(r.cols[k])]

\* the seg.i array that holds the runs, one after the other
RECURSIVE IArrayFor(_)
IArrayFor(runs) ==
    IF runs = <<>> THEN <<>> ELSE RunItems(Head(runs)) \o IArrayFor(Tail(runs))

\* parse_wled_i_array(i_array, width*height)
ParseWledStep ==
    /\ pure.fn = "parse_wled_i_array" /\ pure.res = Pending
    /\ pure' = [pure EXCEPT !.res = parse_wled_i_array(IArrayFor(pure.arg), NumPixels)]
    /\ UNCHANGED displayVars

\* ---- preset text, as the tokens json reads: k is the kind of token, s the
\* characters of a string token, n the value of a number token
Tok(k, s, n) == [k |-> k, s |-> s, n |-> n]
\* punctuation; "ws" a line break, "//" a comment line without its line break,
\* "junk" characters that start no JSON value
Sym(k) == Tok(k, <<>>, 0)
StrTok(s) == Tok("str", s, 0)
IntTok(n) == Tok("int", <<>>, n)

\* the dict key a string token stands for
KeyName(s) ==
    IF s = <<"s", "e", "g">> THEN "seg"
    ELSE IF s = <<"i">> THEN "i"
    ELSE IF s = <<"b", "r", "i">> THEN "bri"
    ELSE IF s = <<"p", "r", "e", "s", "e", "t", "s">> THEN "presets"
    ELSE IF s = <<"f", "r", "a", "m", "e", "s">> THEN "frames"
    ELSE IF s = <<"p", "i", "x", "e", "l", "s">> THEN "pixels"
    ELSE IF s = <<"f", "r", "a", "m", "e">> THEN "frame"
    ELSE "other"

RECURSIVE SkipWs(_, _)
SkipWs(t, i) == IF i <= Len(t) /\ t[i].k = "ws" THEN SkipWs(t, i + 1) ELSE i

NoValue == [ok |-> FALSE, val |-> PyNone, next |-> 0]

\* json.JSONDecoder.raw_decode(text, i): the value that starts at token i and
\* the position after it
RECURSIVE ParseValue(_, _)
RECURSIVE ParseItems(_, _, _)
RECURSIVE ParseMembers(_, _, _)
ParseValue(t, i) ==
    IF i > Len(t) THEN NoValue
    ELSE IF t[i].k = "str" THEN [ok |-> TRUE, val |-> PyStr(t[i].s), next |-> i + 1]
    ELSE IF t[i].k = "int" THEN [ok |-> TRUE, val |-> PyInt(t[i].n), next |-> i + 1]
    ELSE IF t[i].k = "["
    THEN LET j == SkipWs(t, i + 1) IN
         IF j <= Len(t) /\ t[j].k = "]"
         THEN [ok |-> TRUE, val |-> PyList(<<>>), next |-> j + 1]
         ELSE ParseItems(t, j, <<>>)
    ELSE IF t[i].k = "{"
    THEN LET j == SkipWs(t, i + 1) IN
         IF j <= Len(t) /\ t[j].k = "}"
         THEN [ok |-> TRUE, val |-> PyDict(<<>>), next |-> j + 1]
         ELSE ParseMembers(t, j, <<>>)
    ELSE NoValue

ParseItems(t, i, acc) ==
    LET v == ParseValue(t, i)
        j == SkipWs(t, v.next)
    IN  IF ~v.ok \/ j > Len(t) THEN NoValue
        ELSE IF t[j].k = "," THEN ParseItems(t, SkipWs(t, j + 1), Append(acc, v.val))
        ELSE IF t[j].k = "]"
        THEN [ok |-> TRUE, val |-> PyList(Append(acc, v.val)), next |-> j + 1]
        ELSE NoValue

ParseMembers(t, i, d) ==
    IF i > Len(t) \/ t[i].k # "str" THEN NoValue
    ELSE LET c == SkipWs(t, i + 1) IN
         IF c > Len(t) \/ t[c].k # ":" THEN NoValue
         ELSE LET v == ParseValue(t, SkipWs(t, c + 1))
                  j == SkipWs(t, v.next)
                  d2 == (KeyName(t[i].s) :> v.val) @@ d
              IN  IF ~v.ok \/ j > Len(t) THEN NoValue
                  ELSE IF t[j].k = "," THEN ParseMembers(t, SkipWs(t, j + 1), d2)
                  ELSE IF t[j].k = "}"
                  THEN [ok |-> TRUE, val |-> PyDict(d2), next |-> j + 1]
                  ELSE NoValue

\* json.loads(text): one value and nothing but white space around it
JsonLoads(t) ==
    LET v == ParseValue(t, SkipWs(t, 1)) IN
    IF v.ok /\ SkipWs(t, v.next) > Len(t)
    THEN [ok |-> TRUE, val |-> v.val]
    ELSE [ok |-> FALSE, val |-> PyNone]

\* re.findall(r"\{.*?\}", raw, flags=re.DOTALL) from token i on: each match
\* runs from a '{' to the first '}' after it
RECURSIVE BraceMatches(_, _)
BraceMatches(t, i) ==
    LET opens == {p \in i..Len(t) : t[p].k = "{"} IN
    IF opens = {} THEN <<>>
    ELSE LET p == CHOOSE x \in opens : \A y \in opens : x <= y
             closes == {q \in (p + 1)..Len(t) : t[q].k = "}"}
         IN  IF closes = {} THEN <<>>
             ELSE LET q == CHOOSE x \in closes : \A y \in closes : x <= y
                  IN  <<SubSeq(t, p, q)>> \o BraceMatches(t, q + 1)

\* the matches json.loads accepts, decoded
RECURSIVE LoadEach(_)
LoadEach(ms) ==
    IF ms = <<>> THEN <<>>
    ELSE (IF JsonLoads(Head(ms)).ok THEN <<JsonLoads(Head(ms)).val>> ELSE <<>>)
         \o LoadEach(Tail(ms))

\* objs of LEDMatrix.play_wled_json
LegacyTextObjs(t) ==
    IF JsonLoads(t).ok THEN LegacyObjs(JsonLoads(t).val)
    ELSE LoadEach(BraceMatches(t, 1))

\* i_array = seg['i'] is a number: len(i_array) raises TypeError
IArrayRaises(obj) ==
    LET seg == SegOf(obj) IN
    HasKey(seg, "i") /\ seg.d.i.t = "int" /\ seg.d.i.n # 0

\* the objects before the first one whose i array raises
RECURSIVE UntilRaise(_)
UntilRaise(objs) ==
    IF objs = <<>> \/ IArrayRaises(Head(objs)) THEN <<>>
    ELSE <<Head(objs)>> \o UntilRaise(Tail(objs))

\* LEDMatrix.play_wled_json, from the text to the frames or to the exception
LegacyParse(t) ==
    LET objs == LegacyTextObjs(t)
        frames == LegacyWledFrames(objs)
    IN  IF objs = <<>>
        THEN [err |-> "RuntimeError: No JSON objects parsed from WLED file", frames |-> <<>>]
        ELSE IF UntilRaise(objs) # objs
        THEN [err |-> "TypeError", frames |-> <<>>]
        ELSE IF frames = <<>>
        THEN [err |-> "RuntimeError: No frames extracted from WLED JSON", frames |-> <<>>]
        ELSE [err |-> "", frames |-> frames]

\* the values the raw_decode loop of the BasePlugin runner collects from i on
RECURSIVE DecodeLoop(_, _)
DecodeLoop(t, i) ==
    LET j == SkipWs(t, i)
        v == ParseValue(t, j)
    IN  IF j > Len(t) \/ ~v.ok THEN <<>>
        ELSE <<v.val>> \o DecodeLoop(t, v.next)

\* BasePlugin.play_wled_json runner, from the text to the frames it plays
BaseParse(t) ==
    LET objs == IF JsonLoads(t).ok THEN JsonLoads(t).val ELSE PyList(DecodeLoop(t, 1))
    IN  [err |-> "", frames |-> BaseWledFrames(objs)]

\* the most objects, comment lines and stray characters in a preset text
MaxItems == 3

\* {"seg":{"i":[0,N,c]}}
SegObjToks(c) ==
    <<Sym("{"), StrTok(<<"s", "e", "g">>), Sym(":"), Sym("{"), StrTok(<<"i">>), Sym(":"),
      Sym("["), IntTok(0), Sym(","), IntTok(NumPixels), Sym(","), StrTok(c), Sym("]"),
      Sym("}"), Sym("}")>>

ItemColor(kind) ==
    IF kind = "red" THEN <<"F", "F", "0", "0", "0", "0">> ELSE <<"0", "0", "0", "0", "f", "f">>

\* the tokens of one item of a preset text
ItemToks(kind) ==
    IF kind \in {"red", "blue"} THEN SegObjToks(ItemColor(kind))
    ELSE IF kind = "bare"
    THEN <<Sym("{"), StrTok(<<"b", "r", "i">>), Sym(":"), IntTok(10), Sym("}")>>
    ELSE IF kind = "badseg"
    THEN <<Sym("{"), StrTok(<<"s", "e", "g">>), Sym(":"), Sym("{"), StrTok(<<"i">>), Sym(":"),
           IntTok(5), Sym("}"), Sym("}")>>
    ELSE IF kind = "comment" THEN <<Sym("//")>>
    ELSE <<Sym("junk")>>

\* the items one per line
RECURSIVE Lines(_)
Lines(items) ==
    IF items = <<>> THEN <<>> ELSE ItemToks(Head(items)) \o <<Sym("ws")>> \o Lines(Tail(items))

\* the items as the elements of one JSON array
RECURSIVE Elements(_)
Elements(items) ==
    IF Len(items) = 1 THEN ItemToks(items[1])
    ELSE ItemToks(Head(items)) \o <<Sym(","), Sym("ws")>> \o Elements(Tail(items))

TextOf(preset) ==
    IF preset.array THEN <<Sym("[")>> \o Elements(preset.items) \o <<Sym("]"), Sym("ws")>>
    ELSE Lines(preset.items)

\* one item per line, or objects in an array
PresetTexts ==
    LET ObjectKinds == {"red", "blue", "bare", "badseg"}
        ItemKinds == ObjectKinds \cup {"comment", "junk"}
    IN  UNION {{[array |-> FALSE, items |-> it] : it \in [1..n -> ItemKinds]} \cup
               {[array |-> TRUE, items |-> it] : it \in [1..n -> ObjectKinds]} :
                   n \in 1..MaxItems}

\* LEDMatrix.play_wled_json(path) up to the frames
LegacyParseStep ==
    /\ pure.fn = "LEDMatrix.play_wled_json" /\ pure.res = Pending
    /\ pure' = [pure EXCEPT !.res = LegacyParse(TextOf(pure.arg))]
    /\ UNCHANGED displayVars

\* BasePlugin.play_wled_json(path): the runner up to the frames
BaseParseStep ==
    /\ pure.fn = "BasePlugin.play_wled_json" /\ pure.res = Pending
    /\ pure' = [pure EXCEPT !.res = BaseParse(TextOf(pure.arg))]
    /\ UNCHANGED displayVars

\* LEDMatrix.set_pixels with a strip attached: the row as the loop walks it
RowIter(flat, y, serpentine) ==
    LET row == SubSeq(flat, y * Width + 1, y * Width + Width) IN
    IF serpentine /\ y % 2 = 1 THEN [x \in 1..Width |-> row[Width + 1 - x]] ELSE row

\* phys_x for position x of the walk
PhysX(x, y, serpentine) == IF serpentine /\ y % 2 = 1 THEN Width - 1 - x ELSE x

\* the colours setPixelColor(idx, color) leaves on the strip, by idx + 1
StripAfter(flat, serpentine) ==
    [i \in 1..NumPixels |->
        LET y == (i - 1) \div Width
            x == CHOOSE q \in 0..(Width - 1) : y * Width + PhysX(q, y, serpentine) = i - 1
        IN  ParseRGB(RowIter(flat, y, serpentine)[x + 1], <<0, 0, 0>>)]

StripFrames == [1..NumPixels -> {Red, Blue}]

\* the hardware loop of LEDMatrix.set_pixels
StripStep ==
    /\ pure.fn = "setPixelColor" /\ pure.res = Pending
    /\ pure' = [pure EXCEPT !.res = StripAfter(pure.arg.flat, pure.arg.serpentine)]
    /\ UNCHANGED displayVars

\* set_brightness(percent): the brightness the backend holds afterwards, given the
\* one it held before.  The strip stores the clamped percentage; the panel stores it
\* on the driver object and does nothing when there is no driver.
set_brightness(pl, hw, before, percent) ==
    IF pl = "ws2812" THEN ClampPercent(percent)
    ELSE IF hw THEN ClampPercent(percent)
    ELSE before

\* get_brightness(): the strip returns the stored percentage, the panel the driver's
\* value, and 100 when there is no driver
get_brightness(pl, hw, held) ==
    IF pl = "ws2812" THEN held
    ELSE IF hw THEN held
    ELSE 100

\* set_brightness(percent) followed by get_brightness() on one backend
BrightnessStep ==
    /\ pure.fn = "set_brightness" /\ pure.res = Pending
    /\ LET a == pure.arg
           held == set_brightness(a.plugin, a.hardware, brightness, a.percent)
       IN  pure' = [pure EXCEPT !.res = PyInt(get_brightness(a.plugin, a.hardware, held))]
    /\ UNCHANGED displayVars

\* the longest slice of the BasePlugin runners' delay loop, in ms (min(0.05, ...))
SliceMs == 50

\* one sleep of a runner's wait after a frame, times in ms since the frame was
\* written.  LEDMatrix runners sleep the whole delay in one time.sleep; BasePlugin
\* runners sleep slices of at most SliceMs and test the stop flag before each
SleepStep ==
    /\ pure.fn = "time.sleep" /\ pure.res.t \in {"pending", "sleeping"}
    /\ LET a == pure.arg
           waited == IF pure.res = Pending THEN 0 ELSE pure.res.waited
           slice == IF a.delay - waited < SliceMs THEN a.delay - waited ELSE SliceMs
       IN  pure' = [pure EXCEPT !.res =
               IF a.cls = "legacy"
               THEN [t |-> "awake", waited |-> a.delay]
               ELSE IF waited < a.delay /\ ~(a.stop_at <= waited)
               THEN [t |-> "sleeping", waited |-> waited + slice]
               ELSE [t |-> "awake", waited |-> waited]]
    /\ UNCHANGED displayVars

\* colour arguments of show_volume_bar with the RGB value each denotes
BarColors ==
    { <<PyNone, <<0, 255, 0>>>>,
      <<PyStr(<<"0", "f", "0">>), <<0, 255, 0>>>>,
      <<PyStr(<<"#", "F", "F", "8", "0", "0", "0">>), <<255, 128, 0>>>>,
      <<PyStr(<<" ", "#", "0", "a", "0", "b", "6", "4", " ">>), <<10, 11, 100>>>> }

\* show_volume_bar(volume, color=color) on the buffer snap: the list its runner builds
\* and hands to set_pixels
BarStep ==
    /\ pure.fn = "show_volume_bar" /\ pure.res = Pending
    /\ LET a == pure.arg IN
       pure' = [pure EXCEPT !.res =
                   [t |-> "over",
                    over |-> OverlayPixels(a.snap, ClampPercent(a.volume),
                                           NormalizeBarColor(a.color))]]
    /\ UNCHANGED displayVars

\* the delay a player waits after a frame, in tenths of a millisecond.  a.d is the
\* number the frame source gives under a.key ("none": no duration given; GIF frames
\* give it as info['duration']), a.speed10 is ten times the speed argument, which is
\* positive.
\*   LEDMatrix preset:  dur = max(10, int(dur / speed)) ms, dur from 'dur', 'duration'
\*                      or 'ms', else default_frame_ms = 200
\*   LEDMatrix GIF:     max(20, int(dur / (speed or 1.0))) ms, dur default 100
\*   BasePlugin GIF:    max(0.01, (dur / 1000.0) / max(0.001, speed)) s, dur default 100
\*   BasePlugin preset: max(0.01, float(fr.get('duration', 0.1)) / max(0.001, speed)) s
DelayStep ==
    /\ pure.fn = "durations.append" /\ pure.res = Pending
    /\ LET a == pure.arg
           Max(x, y) == IF x >= y THEN x ELSE y
           tenths ==
               IF a.cls = "legacy"
               THEN IF a.kind = "wled"
                    THEN 10 * Max(10, ((IF a.key = "none" THEN 200 ELSE a.d) * 10)
                                          \div a.speed10)
                    ELSE 10 * Max(20, ((IF a.key = "none" THEN 100 ELSE a.d) * 10)
                                          \div a.speed10)
               ELSE IF a.kind = "gif"
                    THEN Max(100, ((IF a.key = "none" THEN 100 ELSE a.d) * 100)
                                      \div a.speed10)
                    ELSE Max(100, ((IF a.key = "duration" THEN a.d * 10000 ELSE 1000)
                                      * 10) \div a.speed10)
       IN  pure' = [pure EXCEPT !.res = [t |-> "delay", n |-> tenths]]
    /\ UNCHANGED displayVars

\* the brightness of a frame object {"bri": v}, as play_wled_json and
\* parse_wled_json_from_file (the same two lines) derive it
BriStep ==
    /\ pure.fn = "bri" /\ pure.res = Pending
    /\ pure' = [pure EXCEPT !.res = PyInt(BriOf(PyDict([bri |-> PyInt(pure.arg)])))]
    /\ UNCHANGED displayVars

FnInit ==
    /\ AtRest
    /\ \/ \E v \in ColorInputs : pure = Call("_coerce_color", v)
       \/ \E p \in PixelInputs : pure = Call("set_pixels", p)
       \/ \E rs \in RunInputs : pure = Call("parse_wled_i_array", rs)
       \/ \E f \in StripFrames : \E b \in BOOLEAN :
              pure = Call("setPixelColor", [flat |-> f, serpentine |-> b])
       \/ \E t \in PresetTexts : pure = Call("LEDMatrix.play_wled_json", t)
       \/ \E t \in PresetTexts : pure = Call("BasePlugin.play_wled_json", t)
       \/ \E pl \in {"ws2812", "rgbmatrix"} : \E hw \in BOOLEAN :
           \E p \in {0 - 1, 0, 1, 50, 99, 100, 101, 255} :
              /\ pl = "ws2812" => ~hw
              /\ pure = Call("set_brightness", [plugin |-> pl, hardware |-> hw, percent |-> p])
       \/ \E v \in {0 - 5, 0, 25, 50, 75, 100, 130} : \E c \in BarColors :
           \E snap \in {[p \in 1..NumPixels |-> Black], GifFrame1, GifFrame2} :
              pure = Call("show_volume_bar",
                          [snap |-> snap, volume |-> v, color |-> c[1], rgb |-> c[2]])
       \/ \E c \in {"legacy", "base"} : \E sp \in {5, 10, 15, 20, 40} :
           \/ \E key \in {"duration", "none"} : \E d \in {10, 25, 40, 100} :
                 pure = Call("durations.append",
                             [cls |-> c, kind |-> "gif", key |-> key, d |-> d, speed10 |-> sp])
           \/ \E key \in {"dur", "duration", "ms", "none"} : \E d \in {5, 30, 200, 305} :
                 pure = Call("durations.append",
                             [cls |-> c, kind |-> "wled", key |-> key, d |-> d, speed10 |-> sp])
       \/ \E v \in 0..255 : pure = Call("bri", v)
       \/ \E c \in {"legacy", "base"} : \E d \in {10, 70, 120, 200} :
           \E st \in {0, 30, 100, 150, 250} :
              pure = Call("time.sleep", [cls |-> c, delay |-> d, stop_at |-> st])

FnNext ==
    \/ CoerceStep
    \/ NormalizeStep
    \/ ParseWledStep
    \/ StripStep
    \/ LegacyParseStep
    \/ BaseParseStep
    \/ BrightnessStep
    \/ SleepStep
    \/ BarStep
    \/ DelayStep
    \/ BriStep

FnSpec == FnInit /\ [][FnNext]_vars


\* ----------------------------------------------------------------- claims

\* C1: after any sequence of operations (set_pixels of any length, flat or
\* nested, bypassing or not; animation frame writes; overlay write, merge and
\* restore) get_pixels() has exactly width * height entries.
C1_BufferSize == Len(get_pixels) = Width * Height

\* an over-long input has been written and truncated
C1_Witness ==
    \E in \in SetPixelsInputs :
        /\ Len(FlatValues(in[1]).xs) > NumPixels
        /\ buf = Stored(NormalizePixels(in[1]))

\* the frame a task at "store" is writing, as set_pixels normalises it
FramePixels(t) ==
    IF t.cls = "legacy"
    THEN LegacyDecode(t.kind, t.file).frames[t.idx]
    ELSE LET fr == BaseDecode(t.kind, t.file).frames[t.idx]
         IN  NormalizePixels(IF t.kind = "gif" THEN fr ELSE BasePayload(fr))

\* C2: while an overlay is active in 'pause' mode a non-bypassing write,
\* also one issued by a running animation task while the overlay is on
\* display, leaves the buffer unchanged.
C2_PauseOverlayDropsWrites ==
    [][(vol_overlay_active /\ vol_overlay_mode = "pause")
          => /\ (CallerStore /\ ~caller.bypass) => buf' = buf
             /\ \A i \in AnimIds :
                   (TaskStore(i) /\ task[i].seen = "pause") => buf' = buf]_vars

\* C3: while an 'overlay' mode bar is active and written, every animation
\* frame written after it leaves the bar in the bottom row and the animation
\* frame's pixels in every other row.
C3_BarOverAnimation ==
    [][\A i \in AnimIds : \A k \in OvIds :
          (/\ TaskStore(i) /\ task[i].seen = "overlay"
           /\ vol_overlay_active /\ vol_overlay_mode = "overlay"
           /\ vol_overlay_stop = k /\ ovl[k].pc = "wait")
          => \A p \in 1..NumPixels :
                buf'[p] = IF p > RowStart THEN Stored(ovl[k].over)[p]
                          ELSE Stored(FramePixels(task[i]))[p]]_vars


\* a colour of the form #RRGGBB in upper-case hex digits
WellFormed(col) ==
    /\ Len(col) = 7 /\ col[1] = "#"
    /\ \A k \in 2..7 : IsHexDigit(col[k]) /\ col[k] = UpperChar(col[k])

\* C4 (as the code has it): at its deadline an uncancelled overlay cycle goes
\* on to restore its snapshot on the panel always, on the strip only when
\* is_animating() is false; the restore is a bypassing write that stores the
\* re-normalised snapshot, which is the snapshot itself when its colours are
\* well-formed.
C4_RestoreOnExpiry ==
    [][\A k \in OvIds :
          /\ OverlayExpire(k) =>
                ((ovl'[k].pc = "restore") <=> ~(plugin = "ws2812" /\ is_animating))
          /\ OverlayRestore(k) =>
                /\ buf' = Stored(NormalizePixels(AsPyList(ovl[k].snap)))
                /\ (\A p \in 1..NumPixels : WellFormed(ovl[k].snap[p]))
                      => buf' = ovl[k].snap]_vars

\* an 'overlay' mode cycle has expired and written back a snapshot that
\* differs from its overlay buffer
C4_Witness ==
    \E k \in OvIds :
        /\ ovl[k].pc = "fin" /\ k \notin ovset
        /\ vol_overlay_active /\ vol_overlay_mode = "overlay" /\ vol_overlay_stop = k
        /\ ovl[k].over # ovl[k].snap
        /\ buf = ovl[k].snap

\* C4 (as stated): at its deadline an uncancelled overlay cycle restores the
\* snapshot verbatim, in both modes and on both backends.
C4_AlwaysRestores ==
    [][\A k \in OvIds :
          /\ OverlayExpire(k) => ovl'[k].pc = "restore"
          /\ OverlayRestore(k) => buf' = ovl[k].snap]_vars

\* C5: in every reachable state at most one animation task is alive.
C5_OneAnimationTask == Cardinality({i \in AnimIds : Alive(i)}) <= 1

\* stop_animation() returns in this step
StopReturns ==
    \/ CallStop /\ caller'.pc = "idle"
    \/ caller.op = "stop" /\ (LegacyJoinReturn \/ BaseJoinReturn)

\* C6: when stop_animation() returns the pause flag is clear, is_animating()
\* is false, and every animation task still alive is leaving or has the stop
\* signal pending, so that it exits without writing another frame.
C6_StopLeadsToIdle ==
    [][StopReturns =>
          /\ ~anim_paused'
          /\ ~is_animating'
          /\ \A i \in AnimIds :
                task'[i].pc \in {"dead", "fin"} \/ StopSeen(i)']_vars

\* a frame write is issued by task i in this step
IssuesFrame(i) ==
    (LegacyFrame(i) \/ BaseFrame(i)) /\ task[i].pc = "frame"
        /\ (task'[i].pc = "store" \/ (task'[i].pc = "frame" /\ task'[i].idx # task[i].idx))

\* C7: pause_animation() on a playing animation sets the pause flag, and
\* while the flag is set no animation task issues a frame.
C7_PauseHoldsFrames ==
    [][/\ (CallPause /\ is_animating) => anim_paused'
       /\ anim_paused => \A i \in AnimIds : ~IssuesFrame(i)]_vars

\* a task leaves after its single pass in this step
NaturalExit(i) == (LegacyFin(i) \/ BaseFin(i)) /\ task[i].why = "natural"

\* C8: a loop=false animation that ends by itself has written each of its
\* frames once, in order, and is_animating() is false afterwards, no other
\* animation being alive.
C8_EveryFrameOnce ==
    [][\A i \in AnimIds :
          NaturalExit(i) =>
             /\ task[i].log = [k \in 1..NumFrames(task[i].cls, task[i].kind, task[i].file) |-> k]
             /\ (\A j \in AnimIds \ {i} : ~Alive(j)) => ~is_animating']_vars

\* the source of a play call cannot be played: the file is missing, or no
\* player finds a frame in it
SourceFails(kind, file) ==
    \/ ~FileExists(file)
    \/ /\ kind = "wled"
       /\ LegacyWledFrames(LegacyObjs(FileJson(file))) = <<>>
       /\ \A k \in 1..Len(BaseWledFrames(FileJson(file))) :
             BasePayload(BaseWledFrames(FileJson(file))[k]).t # "list"

\* C9: a play call whose source cannot be played starts no background task.
C9_FailedPlayStartsNoTask ==
    [][(\E i \in AnimIds : ~Alive(i) /\ task'[i].pc # "dead")
          => ~SourceFails(caller.kind, caller.file)]_vars

\* C10: a failing play call issued in Idle returns in Idle.
C10_IdleRemainsIdle ==
    [][(caller.op = "play" /\ caller'.pc = "idle"
          /\ SourceFails(caller.kind, caller.file) /\ ~caller.pre)
          => ~is_animating']_vars

\* no thread is inside a write to the buffer
WritersDone ==
    /\ caller.pc = "idle"
    /\ \A i \in AnimIds : task[i].pc # "store"
    /\ \A k \in OvIds : ovl[k].pc \notin {"write", "restore"}

\* C11: writes are atomic and serialized: once the writers have finished, the
\* buffer get_pixels() returns is the complete result of the one write whose
\* frame was notified last (last write wins, no torn frame).
C11_NoTornFrame ==
    (WritersDone /\ notified # <<>>) => get_pixels = Stored(notified)

\* C12: a write with bypass_overlay=True takes effect in every overlay state:
\* the call is not dropped, the list it goes on to store is exactly the
\* normalised input, never merged with overlay pixels, and its store steps put
\* that list into the buffer; the same holds for the overlay runner's own
\* bypassing write of the bar.
C12_BypassTakesEffect ==
    [][/\ \A in \in SetPixelsInputs :
             (in[2] /\ CallSetPixels(in[1], TRUE)) =>
                 /\ caller'.pc = "sp_store" /\ caller'.bypass
                 /\ caller'.flat = NormalizePixels(in[1])
       /\ (CallerPutTop /\ caller.bypass) =>
             \A p \in 1..RowStart : buf'[p] = Stored(caller.flat)[p]
       /\ (CallerStore /\ caller.bypass) =>
             \A p \in (IF InPlace THEN RowStart + 1 ELSE 1)..NumPixels :
                 buf'[p] = Stored(caller.flat)[p]
       /\ \A k \in OvIds :
             OverlayWrite(k) => buf' = Stored(NormalizePixels(AsPyList(ovl[k].over)))]_vars

\* a bypassing write has been stored while a 'pause' mode bar was on display
C12_Witness ==
    \E in \in SetPixelsInputs : \E k \in OvIds :
        /\ in[2] /\ caller.pc = "idle"
        /\ vol_overlay_active /\ vol_overlay_mode = "pause"
        /\ vol_overlay_stop = k /\ ovl[k].pc = "wait"
        /\ buf = Stored(NormalizePixels(in[1]))
        /\ buf # Stored(ovl[k].over)

\* an overlay runner whose stop event show_volume_bar has set
OvCancelled(k) == OvAlive(k) /\ k \in ovset

\* C13: show_volume_bar cancels the overlay in flight: at most one overlay
\* runner is alive in every state, and once the new call has returned the
\* cancelled runner writes nothing more to the buffer, neither the bar nor
\* the restored snapshot.
C13_OneOverlayCycle ==
    [][/\ Cardinality({k \in OvIds : OvAlive(k)'}) <= 1
       /\ \A k \in OvIds :
             (OvCancelled(k) /\ caller.op # "show_volume_bar") =>
                 ~(OverlayWrite(k) \/ OverlayRestore(k))]_vars

\* C14: every change of what is rendered, in the buffer or on the panel,
\* reaches the update callback: each pixel a completed write changed is the
\* pixel of the list handed to the callback, and a frame pushed to the driver
\* is the frame handed to the callback.
C14_ChangeNotifies ==
    [][/\ (buf' # buf /\ caller'.pc # "sp_rest") =>
             \A p \in 1..NumPixels :
                 buf'[p] # buf[p] => buf'[p] = Stored(notified')[p]
       /\ shown' # shown => shown' = Stored(notified')]_vars

\* C15: _coerce_color is total: a '#' and six hex digits come back upper-cased,
\* a '#' and three hex digits with each digit doubled, an "r,g,b" triple of
\* bytes as its six hex digits, anything else as #000000; the result is always
\* a well-formed #RRGGBB colour.
C15_CoerceTotal ==
    (pure.fn = "_coerce_color" /\ pure.res # Pending) =>
        LET v == pure.arg
            s == IF v.t = "str" THEN Strip(v.s) ELSE <<>>
            hex == s # <<>> /\ Head(s) = "#" /\ Len(s) \in {4, 7}
                     /\ \A k \in 2..Len(s) : IsHexDigit(s[k])
            parts == SplitComma(s)
            triple == Len(parts) = 3 /\ \A k \in 1..3 :
                          ParseInt(parts[k]).ok /\ ParseInt(parts[k]).n \in 0..255
        IN  /\ WellFormed(pure.res)
            /\ (hex /\ Len(s) = 7) => pure.res = StrUpper(s)
            /\ (hex /\ Len(s) = 4) =>
                   pure.res = StrUpper(<<"#", s[2], s[2], s[3], s[3], s[4], s[4]>>)
            /\ (~hex /\ triple) =>
                   pure.res = FmtColor(ParseInt(parts[1]).n, ParseInt(parts[2]).n,
                                       ParseInt(parts[3]).n)
            /\ (~hex /\ ~triple) => pure.res = Black

\* C16: set_pixels with n values keeps the n coerced values and pads with
\* #000000 up to width*height when n is smaller, keeps the first width*height
\* coerced values when n is larger; the values of a nested list of rows are
\* taken row after row.
C16_PadOrTruncate ==
    (pure.fn = "set_pixels" /\ pure.res # Pending) =>
        LET xs == pure.arg.xs
            nested == xs # <<>> /\ xs[1].t = "list"
            off[r \in 0..Len(xs)] ==
                IF r = 0 THEN 0 ELSE off[r - 1] + Len(xs[r].xs)
            n == IF nested THEN off[Len(xs)] ELSE Len(xs)
            val(k) == IF nested
                      THEN LET r == CHOOSE q \in 1..Len(xs) : off[q - 1] < k /\ k <= off[q]
                           IN  xs[r].xs[k - off[r - 1]]
                      ELSE xs[k]
        IN  /\ Len(pure.res) = Width * Height
            /\ \A k \in 1..(Width * Height) :
                   pure.res[k] = IF k <= n THEN CoerceColor(val(k)) ELSE Black

\* a nested list with fewer values than the matrix has pixels went through:
\* the rows are flattened and the rest is padding
C16_Witness ==
    /\ pure.fn = "set_pixels" /\ pure.res # Pending
    /\ Len(pure.arg.xs) = 2
    /\ pure.arg.xs[1].t = "list" /\ Len(pure.arg.xs[1].xs) = 1
    /\ pure.arg.xs[2].t = "list" /\ Len(pure.arg.xs[2].xs) = 2
    /\ pure.res[3] # Black /\ pure.res[Width * Height] = Black

\* C17: parse_wled_i_array gives each pixel start+k of a run inside the
\* buffer the run's only colour, its k-th colour when the run has at least
\* end-start colours, its (k mod n)-th colour otherwise (a later run
\* overwrites an earlier one); a pixel no run covers stays #000000, and the
\* output has width*height entries.
C17_RunColours ==
    (pure.fn = "parse_wled_i_array" /\ pure.res # Pending) =>
        LET runs == pure.arg
            covers(r, p) == runs[r].start <= p /\ p < runs[r].end
            hexcol(c) == StrUpper(IF Head(c) = "#" THEN c ELSE <<"#">> \o c)
        IN  /\ Len(pure.res) = Width * Height
            /\ \A p \in 0..(Width * Height - 1) :
                   LET on == {r \in 1..Len(runs) : covers(r, p)} IN
                   IF on = {}
                   THEN pure.res[p + 1] = Black
                   ELSE LET r == CHOOSE q \in on : \A o \in on : o <= q
                            n == Len(runs[r].cols)
                            k == p - runs[r].start
                        IN  (0 <= runs[r].start /\ runs[r].end <= Width * Height) =>
                                pure.res[p + 1] =
                                    hexcol(IF n = 1 THEN runs[r].cols[1]
                                           ELSE IF n >= runs[r].end - runs[r].start
                                           THEN runs[r].cols[k + 1]
                                           ELSE runs[r].cols[(k % n) + 1])

\* a run of three pixels with two colours has been parsed: the third pixel
\* repeats the first colour and the pixel before the run stays black
C17_Witness ==
    /\ pure.fn = "parse_wled_i_array" /\ pure.res # Pending
    /\ Len(pure.arg) = 1
    /\ pure.arg[1].start = 1 /\ pure.arg[1].end = 4 /\ Len(pure.arg[1].cols) = 2
    /\ pure.arg[1].cols[1] # pure.arg[1].cols[2]
    /\ pure.res[1] = Black
    /\ pure.res[4] = pure.res[2] /\ pure.res[3] # pure.res[2]

\* C18: on the strip, logical pixel (x, y) goes to physical index y*width + x,
\* and with serpentine addressing to y*width + (width-1-x) on the odd rows.
C18_SerpentineIndex ==
    (pure.fn = "setPixelColor" /\ pure.res # Pending) =>
        \A y \in 0..(Height - 1) : \A x \in 0..(Width - 1) :
            LET phys == IF pure.arg.serpentine /\ y % 2 = 1
                        THEN y * Width + (Width - 1 - x)
                        ELSE y * Width + x
            IN  pure.res[phys + 1] = ParseRGB(pure.arg.flat[y * Width + x + 1], <<0, 0, 0>>)

\* C19: a preset text of k >= 1 objects with segment data, alone, in an array
\* or one after the other with // comment lines between them, gives the player
\* exactly k frames in the order of the text; stray characters end the scan
\* and the objects before them are kept.
C19_FramesInOrder ==
    (pure.fn \in {"LEDMatrix.play_wled_json", "BasePlugin.play_wled_json"}
         /\ pure.res # Pending) =>
        LET items == pure.arg.items
            junk == {q \in 1..Len(items) : items[q] = "junk"}
            stop == IF junk = {} THEN Len(items) + 1
                    ELSE CHOOSE q \in junk : \A o \in junk : q <= o
            kept == SubSeq(items, 1, stop - 1)
            IsSeg(x) == x \in {"red", "blue"}
            segs == SelectSeq(kept, IsSeg)
            colour(fr) == IF pure.fn = "LEDMatrix.play_wled_json"
                          THEN fr[1]
                          ELSE <<"#">> \o StrUpper(fr.d.seg.d.i.xs[3].s)
        IN  ((\A q \in 1..Len(kept) : kept[q] \in {"red", "blue", "comment"})
                 /\ segs # <<>>) =>
                /\ Len(pure.res.frames) = Len(segs)
                /\ \A j \in 1..Len(segs) :
                       colour(pure.res.frames[j]) = <<"#">> \o StrUpper(ItemColor(segs[j]))

\* C20: LEDMatrix.play_wled_json skips the objects without segment data and
\* raises only when it extracted no frame at all, and then the no-frames
\* RuntimeError; no text makes it raise anything else.
C20_OnlyNoFramesFound ==
    (pure.fn = "LEDMatrix.play_wled_json" /\ pure.res # Pending) =>
        /\ pure.res.err \in {"", "RuntimeError: No JSON objects parsed from WLED file",
                              "RuntimeError: No frames extracted from WLED JSON"}
        /\ pure.res.err # "" <=> pure.res.frames = <<>>
        /\ (pure.arg.array /\ \A q \in 1..Len(pure.arg.items) : pure.arg.items[q] # "badseg") =>
               Len(pure.res.frames) =
                   Cardinality({q \in 1..Len(pure.arg.items) :
                                   pure.arg.items[q] \in {"red", "blue"}})

\* C21: on every backend, the one without a hardware driver included, set_brightness(p)
\* followed by get_brightness() returns p clamped to 0..100
C21_BrightnessRoundTrip ==
    (pure.fn = "set_brightness" /\ pure.res # Pending)
        => pure.res = PyInt(ClampPercent(pure.arg.percent))


C23_FramesThroughSetPixels ==
    [][\A i \in AnimIds :
          ((LegacyFrame(i) \/ BaseFrame(i)) /\ (task'[i].pc = "store" \/ shown' # shown))
             => /\ ~Blocked(FALSE)
                /\ task'[i].pc = "store"
                /\ task'[i].flat = Prepared(AsPyList(FramePixels(task[i])), FALSE)
                /\ shown' = shown]_vars


\* C24: in every reachable state, the pause flag being set implies that an animation
\* task is alive
C24_PausedImpliesAlive ==
    anim_paused => \E i \in AnimIds : task[i].pc # "dead"


\* C25: a runner's wait after a frame tests the stop signal between sleep slices of at
\* most 50 ms, so a runner whose stop is signalled during the wait leaves the wait
\* within one slice of the signal instead of at the end of the frame's delay
C25_StopSeenWithinSlice ==
    (pure.fn = "time.sleep" /\ pure.res.t = "awake" /\ pure.arg.stop_at < pure.arg.delay)
        => pure.res.waited < pure.arg.stop_at + SliceMs


\* C26: every overlay cycle ends: under fair scheduling the overlay is inactive for good
\* once the last show_volume_bar call has run out (no runner alive, the overlay fields
\* reset), and a write that does not bypass the overlay, issued while it is inactive,
\* is stored as normalized, unmerged
C26_OverlayCycleEnds ==
    /\ <>[](/\ \A k \in OvIds : ~OvAlive(k)
            /\ ~vol_overlay_active /\ vol_overlay_pixels = <<>> /\ vol_overlay_stop = 0)
    /\ [][(/\ \A k \in OvIds : ~OvAlive(k)
           /\ ~vol_overlay_active
           /\ caller.pc = "idle" /\ caller'.pc = "sp_store")
             => \E in \in SetPixelsInputs : caller'.flat = NormalizePixels(in[1])]_vars

\* an overlay has been shown and restored, and a later write is about to be stored
C26_Witness ==
    /\ \A k \in OvIds : ~OvAlive(k)
    /\ ~vol_overlay_active /\ vol_overlay_pixels = <<>> /\ vol_overlay_stop = 0
    /\ notified = [p \in 1..NumPixels |-> Black]
    /\ caller.pc = "sp_store" /\ ~caller.bypass

\* C27: the overlay buffer of show_volume_bar(percent, ..., color, ...) equals the
\* snapshot in every row but the bottom one; there the first round(p/100 * width)
\* pixels, p the percentage clamped to 0..100, are the colour and the others the colour
\* with each channel scaled by 0.12
C27_BarBuffer ==
    (pure.fn = "show_volume_bar" /\ pure.res # Pending)
        => LET a == pure.arg
               p == IF a.volume < 0 THEN 0 ELSE IF a.volume > 100 THEN 100 ELSE a.volume
               \* the integer nearest to p * Width / 100, the even one of two
               n == CHOOSE m \in 0..Width :
                       /\ 100 * m - 50 <= p * Width /\ p * Width <= 100 * m + 50
                       /\ (p * Width = 100 * m - 50 \/ p * Width = 100 * m + 50)
                             => m % 2 = 0
               dim(ch) == CHOOSE d \in 0..255 : 100 * d <= 12 * ch /\ 12 * ch < 100 * (d + 1)
           IN  /\ Len(pure.res.over) = NumPixels
               /\ \A k \in 1..NumPixels :
                     pure.res.over[k] =
                        IF k <= NumPixels - Width THEN a.snap[k]
                        ELSE IF k - (NumPixels - Width) <= n
                        THEN FmtColor(a.rgb[1], a.rgb[2], a.rgb[3])
                        ELSE FmtColor(dim(a.rgb[1]), dim(a.rgb[2]), dim(a.rgb[3]))

\* a bar that is part colour, part dimmed colour, over a snapshot that is not black
C27_Witness ==
    /\ pure.fn = "show_volume_bar" /\ pure.res # Pending
    /\ pure.arg.volume = 50 /\ pure.arg.rgb = <<255, 128, 0>>
    /\ pure.arg.snap = GifFrame1
    /\ pure.res.over[NumPixels] # pure.res.over[NumPixels - Width + 1]


\* the brightness a preset frame carries, -1 when it carries none
FrameBri(t) ==
    IF t.cls = "legacy" THEN LegacyDecode(t.kind, t.file).bris[t.idx]
    ELSE BriOf(BaseDecode(t.kind, t.file).frames[t.idx])

\* C28: on every backend that plays presets, the player has applied the brightness of a
\* frame that carries one to the backend by the time it writes that frame's pixels
C28_BrightnessBeforePixels ==
    [][\A i \in AnimIds :
          (/\ LegacyFrame(i) \/ BaseFrame(i)
           /\ task[i].kind = "wled"
           /\ task'[i].pc = "store" \/ shown' # shown
           /\ FrameBri(task[i]) >= 0)
          => brightness' = FrameBri(task[i])]_vars


\* C29: parse_wled_i_array clamps every run to [0, num_pixels): a run that lies outside
\* the buffer or has end <= start changes no pixel and raises nothing, a run that lies
\* partly outside writes its in-range pixels only, and the result never has an index
\* outside the buffer
C29_RunsClamped ==
    (pure.fn = "parse_wled_i_array" /\ pure.res # Pending) =>
        LET runs == pure.arg
            N == Width * Height
            inside(r) == {p \in 0..(N - 1) : runs[r].start <= p /\ p < runs[r].end}
            colours(r) == {StrUpper(IF Head(runs[r].cols[k]) = "#" THEN runs[r].cols[k]
                                    ELSE <<"#">> \o runs[r].cols[k]) :
                              k \in 1..Len(runs[r].cols)}
        IN  /\ DOMAIN pure.res = 1..N
            /\ \A p \in 0..(N - 1) :
                  LET on == {r \in 1..Len(runs) : p \in inside(r)} IN
                  IF on = {} THEN pure.res[p + 1] = Black
                  ELSE pure.res[p + 1] \in colours(CHOOSE q \in on : \A o \in on : o <= q)
            /\ (\A r \in 1..Len(runs) :
                   runs[r].end <= runs[r].start \/ runs[r].end <= 0 \/ runs[r].start >= N)
                  => pure.res = [p \in 1..N |-> Black]

\* a run that starts at the last pixel and ends two past it has been parsed: the last
\* pixel is coloured and nothing else is
C29_Witness ==
    /\ pure.fn = "parse_wled_i_array" /\ pure.res # Pending
    /\ Len(pure.arg) = 1
    /\ pure.arg[1].start = Width * Height - 1 /\ pure.arg[1].end = Width * Height + 2
    /\ pure.res[Width * Height] # Black
    /\ \A p \in 1..(Width * Height - 1) : pure.res[p] = Black


\* C30: the delay of a preset frame is max(10, floor(d / speed)) ms, d the number given
\* under duration, dur or ms and 200 when none is given; the delay of a GIF frame is
\* its authored duration divided by the speed, and 10 ms at least
C30_FrameDelay ==
    (pure.fn = "durations.append" /\ pure.res # Pending)
        => LET a == pure.arg
               floorms == CHOOSE q \in 0..10000 :
                             /\ q * a.speed10 <= (IF a.key = "none" THEN 200 ELSE a.d) * 10
                             /\ (IF a.key = "none" THEN 200 ELSE a.d) * 10 < (q + 1) * a.speed10
           IN  IF a.kind = "wled"
               THEN pure.res.n = 10 * (IF floorms < 10 THEN 10 ELSE floorms)
               ELSE \* d / speed ms, to the tenth of a millisecond
                    /\ pure.res.n >= 100
                    /\ a.key # "none" =>
                          \/ (pure.res.n = 100 /\ a.d * 10 <= 10 * a.speed10)
                          \/ /\ pure.res.n * a.speed10 <= a.d * 100
                             /\ a.d * 100 < (pure.res.n + 1) * a.speed10


\* C31: a bri value v in 0..255 of a frame source becomes the brightness percentage
\* round(v * 100 / 255), the integer nearest to v * 100 / 255, within 0..100
C31_BriRounded ==
    (pure.fn = "bri" /\ pure.res # Pending)
        => /\ pure.res.n \in 0..100
           /\ 2 * (255 * pure.res.n - 100 * pure.arg) \in (0 - 255)..255


\* C32: with no writer but show_volume_bar, when the overlay of the last call so far
\* expires by itself, its restore leaves the buffer as it was before the first call
\* (all black): no pixel of a volume bar remains
C32_BarsLeaveNoTrace ==
    [][\A k \in OvIds :
          (/\ OverlayRestore(k)
           /\ caller.pc = "idle"
           /\ \A j \in OvIds \ {k} : ~OvAlive(j))
          => buf' = Stored([p \in 1..NumPixels |-> Black])]_vars


\* C33: from the write of its overlay buffer until it ends, a cycle that has not been
\* cancelled is the active one: the active flag is set and the stop event and overlay
\* pixels are its own; the clean-up of a cancelled predecessor does not reset them
C33_CycleStaysActive ==
    \A k \in OvIds :
        (ovl[k].pc = "wait" /\ k \notin ovset)
            => /\ vol_overlay_active
               /\ vol_overlay_stop = k
               /\ vol_overlay_pixels = ovl[k].over



\* C34: whenever no call is in progress, is_animating() is true exactly when
\* an animation task started by a play call is still alive, also after a
\* join that timed out and after a cancel-and-replace.
C34_AnimatingIffAlive ==
    caller.pc = "idle" => (is_animating <=> \E i \in AnimIds : Alive(i))


\* C35: the stop signal of BasePlugin, once raised, is not cleared while a
\* task of BasePlugin that was alive under it is still running: a step that
\* clears it leaves every such task dead or in its exit handler.
C35_StopSignalKept ==
    [][(anim_stop /\ ~anim_stop')
          => \A i \in AnimIds :
                (Alive(i) /\ task[i].cls = "base") => task'[i].pc \in {"dead", "fin"}]_vars


\* C36: on the strip backend pause_animation() issued while is_animating()
\* is true sets the pause flag, and while the flag is set no animation task
\* issues a frame, as on the panel backend.
C36_StripPauseActs ==
    [][plugin = "ws2812" =>
          /\ (CallPause /\ is_animating) => anim_paused'
          /\ anim_paused => \A i \in AnimIds : ~IssuesFrame(i)]_vars


\* C37: in every reachable state, also after set_active_plugin with a
\* backend_config of another size, DisplayManager.get_pixels() returns
\* exactly width * height entries of the manager.
C37_ManagerSizedPixels == Len(ManagerGetPixels) = Width * Height

\* C38: once set_active_plugin has replaced the backend instance nothing
\* started on a previous instance is still running, and the update callback
\* is registered on the active instance.
C38_NothingLeftRunning == app.orphans = {} /\ app.cb

\* C39: once _play_animation_safe(STOP_ANIMATION_MARKER) has run and returned,
\* the buffer is all black and stays so as long as no play or write call
\* follows, whatever the overlay state was at the time of the call.
C39_StaysBlack ==
    (/\ app.stop_at > 0 /\ app.stop_at = calls
     /\ ~app.lock /\ caller.pc = "idle")
        => \A p \in 1..Len(buf) : buf[p] = Stored(<<Black>>)[1]

\* C40: a play request that follows an API stop or a pause, with no play
\* request in between, is not suppressed as a duplicate.
C40_PlayAfterPauseRuns ==
    [][\A in \in SafeInputs :
          (/\ SafePlay(in[1], in[2], in[3])
           /\ app.since \in {"stop", "pause"}
           /\ FileExists(in[2]))
              => app'.lock]_vars

=============================================================================
